---- MODULE Spec2Model ----
(***************************************************************************)
(* Family-tree canvas: the desktop InteractiveCanvas and PersonNode        *)
(* (src/src/InteractiveCanvas.tsx) and the mobile app (src/unnamed/        *)
(* part_000).  Real numbers (zoom, pan, world points) are exact rationals  *)
(* <<numerator, denominator>>; screen points are canvas-relative, that is  *)
(* clientX - rect.left and clientY - rect.top.                             *)
(***************************************************************************)
EXTENDS Integers, Sequences, FiniteSets, TLC

VARIABLES
  app,               \* the front end running: "desktop" | "mobile"
  \* InteractiveCanvas (desktop)
  interactionMode,   \* prop: "navigate" | "add-person" | "connect"
  zoom, pan, isPanning, lastPanPoint, isTouch, lastTouchDistance,
  \* PersonNode / MobilePersonNode, one entry per person
  people,            \* person id -> stored position (x, y)
  isDragging, isConnecting, isEditing, dragStart,
  longPressTimer,    \* the timer id held in state, 0 for null
  elapsed,           \* Date.now() - touchStartTime, in ms, saturating
  timers,            \* the browser's pending timeouts
  \* MobileFamilyTreeApp and MobileCanvas
  mode,              \* "navigate" | "add" | "connect"
  connectionType,
  connectionStart,   \* <<>> for null, else <<[personId, x, y]>>
  relationships,     \* familyTree.relationships, in order of creation
  selectedPersonId,
  scale, offset, mIsPanning, isZooming, lastTouchCenter, mLastTouchDistance,
  canvasElapsed,     \* Date.now() - MobileCanvas.touchStartTime, saturating
  showAddForm, addPosition,
  \* the environment
  touches,           \* number of fingers currently on the screen
  down,              \* the person a pointer is held down on, "none" otherwise
  gesture,           \* observer: what the press on a person in progress has done
  ops,               \* presses on a person, view and position changes so far
  last,              \* the event handled last
  calls              \* the callbacks the last event invoked, in order

viewVars == <<zoom, pan, isPanning, lastPanPoint, isTouch, lastTouchDistance>>
nodeVars == <<people, isDragging, isConnecting, isEditing, dragStart,
              longPressTimer, elapsed, timers>>
appVars == <<mode, connectionType, connectionStart, relationships,
             selectedPersonId, showAddForm, addPosition>>
mcanvasVars == <<scale, offset, mIsPanning, isZooming, lastTouchCenter,
                 mLastTouchDistance, canvasElapsed>>
mobileVars == <<appVars, mcanvasVars>>
vars == <<app, interactionMode, viewVars, nodeVars, mobileVars, touches, down,
          gesture, ops, last, calls>>
\* what no handler of the InteractiveCanvas writes
offCanvas == <<app, nodeVars, mobileVars, down, gesture>>

---------------------------------------------------------------------------
(* Bounds of the model *)
MaxOps == 3
MaxTouches == 3
\* the coordinates grid snapping is examined for
MaxCoord == 450

---------------------------------------------------------------------------
(* Exact rational arithmetic *)
Abs(a) == IF a < 0 THEN -a ELSE a

RECURSIVE GCD(_, _)
GCD(a, b) == IF b = 0 THEN a ELSE GCD(b, a % b)

Norm(n, d) ==
  LET s == IF d < 0 THEN -1 ELSE 1
      g == GCD(Abs(n), Abs(d))
  IN  IF n = 0 THEN <<0, 1>> ELSE <<(s * n) \div g, (s * d) \div g>>

R(i) == <<i, 1>>
RNeg(a) == <<-a[1], a[2]>>
RAdd(a, b) ==
  LET g == GCD(a[2], b[2])
      l == (a[2] \div g) * b[2]
  IN  Norm(a[1] * (l \div a[2]) + b[1] * (l \div b[2]), l)
RSub(a, b) == RAdd(a, RNeg(b))
RMul(a, b) ==
  LET g1 == GCD(Abs(a[1]), b[2])
      g2 == GCD(Abs(b[1]), a[2])
  IN  IF a[1] = 0 \/ b[1] = 0 THEN <<0, 1>>
      ELSE Norm((a[1] \div g1) * (b[1] \div g2), (a[2] \div g2) * (b[2] \div g1))
RDiv(a, b) == RMul(a, IF b[1] < 0 THEN <<-b[2], -b[1]>> ELSE <<b[2], b[1]>>)
RLt(a, b) == a[1] * b[2] < b[1] * a[2]
RLe(a, b) == a[1] * b[2] <= b[1] * a[2]
RMax(a, b) == IF RLt(a, b) THEN b ELSE a
RMin(a, b) == IF RLt(b, a) THEN b ELSE a

Pt(x, y) == [x |-> x, y |-> y]
RPt(p) == Pt(R(p.x), R(p.y))

RECURSIVE SqrtFrom(_, _)
SqrtFrom(n, r) == IF (r + 1) * (r + 1) > n THEN r ELSE SqrtFrom(n, r + 1)
\* Math.sqrt on the perfect squares the touch inputs produce
Sqrt(n) == SqrtFrom(n, 0)

---------------------------------------------------------------------------
(* InteractiveCanvas *)
MinZoom == <<1, 10>>
MaxZoom == <<3, 1>>
\* a clamp that forgets the upper limit
ClampZoomLow(z) == RMax(MinZoom, z)
ClampZoom(z) == RMax(MinZoom, RMin(MaxZoom, z))

\* a transform that forgets the pan
ToWorldNoPan(s, pn, z) == Pt(RDiv(R(s.x), z), RDiv(R(s.y), z))

\* (screen - pan) / zoom, per axis
ToWorld(s, pn, z) ==
  Pt(RDiv(RSub(R(s.x), pn.x), z), RDiv(RSub(R(s.y), pn.y), z))

\* a zoom that leaves the pan alone
ZoomPanKeep(c, pn, z, newZoom) == pn

\* pan - (c - pan) * (deltaZoom / zoom), per axis
ZoomPan(c, pn, z, newZoom) ==
  LET k == RDiv(RSub(newZoom, z), z)
  IN  Pt(RSub(pn.x, RMul(RSub(c.x, pn.x), k)),
         RSub(pn.y, RMul(RSub(c.y, pn.y), k)))

\* a wheel that only ever zooms in
WheelFactorIn(deltaY) == <<11, 10>>
WheelFactor(deltaY) == IF deltaY > 0 THEN <<9, 10>> ELSE <<11, 10>>

\* a canvas that is styled for navigate whatever the mode
ModeClassNavigate == "mode-navigate"
\* the mode class the parent puts into className
ModeClass == "mode-" \o interactionMode

Modes == {"navigate", "add-person", "connect"}
Pts == {Pt(400, 300), Pt(220, 140)}
\* (deltaX, deltaY) of the wheel events tried
WheelInputs == {Pt(0, -100), Pt(0, 100), Pt(0, 0), Pt(-50, -50)}
\* half the horizontal distance between two fingers
Spreads == {0, 10, 40}
\* what a pointer on the canvas can hit besides a person node
CanvasTargets == {"canvas", "other"}

\* e.touches of a two-finger event: the fingers lie h left and right of c
TwoTouches(c, h) == <<Pt(c.x - h, c.y), Pt(c.x + h, c.y)>>

\* a distance that is the reference distance held so far
getTouchDistanceKept(ts) == lastTouchDistance
getTouchDistance(ts) ==
  IF Len(ts) < 2 THEN R(0)
  ELSE R(Sqrt((ts[2].x - ts[1].x) * (ts[2].x - ts[1].x)
              + (ts[2].y - ts[1].y) * (ts[2].y - ts[1].y)))

getTouchCenter(ts) ==
  IF Len(ts) = 1 THEN RPt(ts[1])
  ELSE Pt(RDiv(R(ts[1].x + ts[2].x), R(2)), RDiv(R(ts[1].y + ts[2].y), R(2)))

NoEvent == [ev |-> "none"]
\* the press point, the mode, the holder of the connection draft and the
\* number of relationships at the press, whether a 15px move came within the
\* first 100 ms, the position updates and edit entries since the press, and
\* the person the touch that ended just before this press was on, if that
\* touch began and ended in connect mode and found no draft, with the
\* connection type at the press; whether the timer of the press has run
NoGesture == [at |-> Pt(0, 0), mode |-> "none", from |-> "null", rels |-> 0,
              moved |-> FALSE, updates |-> 0, edits |-> 0, type |-> "none",
              prev |-> "null", fired |-> FALSE]
Pressed(p, m) ==
  LET prev == IF last.ev = "touchend" /\ "tap" \in DOMAIN last /\ last.tap
                THEN last.node ELSE "null"
  IN  [NoGesture EXCEPT !.at = p, !.mode = m, !.rels = Len(relationships),
                        !.from = IF connectionStart = <<>> THEN "null"
                                 ELSE connectionStart[1].personId,
                        !.type = IF prev = "null" THEN "none" ELSE connectionType,
                        !.prev = prev]
\* did the touch on a person that now ends begin and end in connect mode,
\* with no draft pending when it began?
Tapped == mode = "connect" /\ gesture.mode = "connect" /\ gesture.from = "null"
CanvasClick(w) == [cb |-> "onCanvasClick", x |-> w.x, y |-> w.y]

NodeIds == {"A", "B"}
\* the tree the app starts from (loaded from storage)
StoredPeople == [n \in NodeIds |-> IF n = "A" THEN Pt(60, 40) ELSE Pt(300, 40)]

Saturated == 700

InitCommon ==
  /\ interactionMode = "navigate"
  /\ zoom = R(1)
  /\ pan = Pt(R(0), R(0))
  /\ isPanning = FALSE
  /\ lastPanPoint = Pt(R(0), R(0))
  /\ isTouch = FALSE
  /\ lastTouchDistance = R(0)
  /\ people = StoredPeople
  /\ isDragging = [n \in NodeIds |-> FALSE]
  /\ isConnecting = [n \in NodeIds |-> FALSE]
  /\ isEditing = [n \in NodeIds |-> FALSE]
  /\ dragStart = [n \in NodeIds |-> Pt(0, 0)]
  /\ longPressTimer = [n \in NodeIds |-> 0]
  /\ elapsed = [n \in NodeIds |-> Saturated]
  /\ timers = {}
  /\ mode = "navigate"
  /\ connectionType = "parent"
  /\ connectionStart = <<>>
  /\ relationships = <<>>
  /\ selectedPersonId = "null"
  /\ scale = 1
  /\ offset = Pt(0, 0)
  /\ mIsPanning = FALSE
  /\ isZooming = FALSE
  /\ lastTouchCenter = Pt(0, 0)
  /\ mLastTouchDistance = 0
  /\ canvasElapsed = Saturated
  /\ showAddForm = FALSE
  /\ addPosition = Pt(0, 0)
  /\ touches = 0
  /\ down = "none"
  /\ gesture = NoGesture
  /\ ops = 0
  /\ last = NoEvent
  /\ calls = <<>>

InitDesktop == app = "desktop" /\ InitCommon
InitMobile == app = "mobile" /\ InitCommon

handleWheel(ctrl, d, p) ==
  /\ app = "desktop"
  /\ ops < MaxOps
  /\ ops' = ops + 1
  /\ IF ctrl
       THEN /\ pan' = Pt(RSub(pan.x, R(d.x)), RSub(pan.y, R(d.y)))
            /\ zoom' = zoom
       ELSE LET newZoom == ClampZoom(RMul(zoom, WheelFactor(d.y)))
            IN  /\ zoom' = newZoom
                /\ pan' = ZoomPan(RPt(p), pan, zoom, newZoom)
  /\ UNCHANGED offCanvas
  /\ last' = [ev |-> "wheel"]
  /\ calls' = <<>>
  /\ UNCHANGED <<interactionMode, isPanning, lastPanPoint,
                 isTouch, lastTouchDistance, touches>>

\* InteractiveCanvas.handleMouseDown, pointer not on a person node;
\* disableCanvasClick is the value of that prop when the event arrives
handleMouseDown(button, alt, target, disableCanvasClick, p) ==
  /\ app = "desktop"
  /\ down = "none"
  /\ ops < MaxOps
  /\ ops' = ops + 1
  /\ UNCHANGED offCanvas
  /\ last' = [ev |-> "mousedown"]
  /\ UNCHANGED <<interactionMode, zoom, pan, isTouch,
                 lastTouchDistance, touches>>
  /\ IF button = 1 \/ (button = 0 /\ alt)
       THEN /\ isPanning' = TRUE
            /\ lastPanPoint' = RPt(p)
            /\ calls' = <<>>
       ELSE IF button = 0 /\ ~disableCanvasClick /\ target = "canvas"
         THEN IF ModeClass = "mode-add-person"
                THEN /\ calls' = <<CanvasClick(ToWorld(p, pan, zoom))>>
                     /\ UNCHANGED <<isPanning, lastPanPoint>>
                ELSE IF ModeClass = "mode-navigate"
                  THEN /\ isPanning' = TRUE
                       /\ lastPanPoint' = RPt(p)
                       /\ calls' = <<>>
                  ELSE /\ calls' = <<>>
                       /\ UNCHANGED <<isPanning, lastPanPoint>>
         ELSE /\ calls' = <<>>
              /\ UNCHANGED <<isPanning, lastPanPoint>>

PanSpeedMouse == <<7, 10>>
PanSpeedTouch == <<1, 1>>

PanBy(pn, from, to, speed) ==
  Pt(RAdd(pn.x, RMul(RSub(to.x, from.x), speed)),
     RAdd(pn.y, RMul(RSub(to.y, from.y), speed)))

\* A mousemove: the canvas element's handleMouseMove runs when the pointer is
\* over the canvas, then the document's handleGlobalMouseMove (registered
\* while isPanning), whose setPan(prev => ...) applies to the pan just set.
handleMouseMove(p, overCanvas) ==
  /\ app = "desktop"
  /\ down = "none"
  /\ isPanning
  /\ ops < MaxOps
  /\ ops' = ops + 1
  /\ LET pan1 == IF overCanvas
                   THEN PanBy(pan, lastPanPoint, RPt(p), PanSpeedMouse)
                   ELSE pan
     IN  pan' = PanBy(pan1, lastPanPoint, RPt(p), PanSpeedMouse)
  /\ lastPanPoint' = RPt(p)
  /\ UNCHANGED offCanvas
  /\ last' = [ev |-> "mousemove"]
  /\ calls' = <<>>
  /\ UNCHANGED <<interactionMode, zoom, isPanning, isTouch,
                 lastTouchDistance, touches>>

handleMouseUp ==
  /\ app = "desktop"
  /\ down = "none"
  /\ isPanning
  /\ isPanning' = FALSE
  /\ UNCHANGED offCanvas
  /\ last' = [ev |-> "mouseup"]
  /\ calls' = <<>>
  /\ UNCHANGED <<interactionMode, zoom, pan, lastPanPoint,
                 isTouch, lastTouchDistance, touches, ops>>

\* touchstart whose e.touches holds one finger, not on a person node
handleTouchStart1(target, p) ==
  /\ app = "desktop"
  /\ down = "none"
  /\ ops < MaxOps
  /\ ops' = ops + 1
  /\ touches = 0
  /\ touches' = 1
  /\ isTouch' = TRUE
  /\ UNCHANGED offCanvas
  /\ last' = [ev |-> "touchstart"]
  /\ UNCHANGED <<interactionMode, zoom, pan,
                 lastTouchDistance>>
  /\ IF target # "canvas"
       THEN /\ calls' = <<>>
            /\ UNCHANGED <<isPanning, lastPanPoint>>
       ELSE IF ModeClass = "mode-add-person"
         THEN /\ calls' = <<CanvasClick(ToWorld(p, pan, zoom))>>
              /\ UNCHANGED <<isPanning, lastPanPoint>>
         ELSE /\ isPanning' = TRUE
              /\ lastPanPoint' = RPt(p)
              /\ calls' = <<>>

\* touchstart whose e.touches holds two fingers (k of them new); `again`
\* tells that the finger lands beside one that a lift has just left alone
handleTouchStart2(k, c, h) ==
  /\ app = "desktop"
  /\ down = "none"
  /\ ops < MaxOps
  /\ ops' = ops + 1
  /\ k \in 1..2
  /\ touches + k = 2
  /\ touches' = 2
  /\ isTouch' = TRUE
  /\ isPanning' = FALSE
  /\ lastTouchDistance' = getTouchDistance(TwoTouches(c, h))
  /\ lastPanPoint' = getTouchCenter(TwoTouches(c, h))
  /\ UNCHANGED offCanvas
  /\ last' = [ev |-> "touchstart", again |-> touches = 1 /\ last.ev = "touchend"]
  /\ calls' = <<>>
  /\ UNCHANGED <<interactionMode, zoom, pan>>

\* touchstart whose e.touches holds three or more fingers
handleTouchStartMany ==
  /\ app = "desktop"
  /\ down = "none"
  /\ ops < MaxOps
  /\ ops' = ops + 1
  /\ touches >= 2
  /\ touches < MaxTouches
  /\ touches' = touches + 1
  /\ isTouch' = TRUE
  /\ UNCHANGED offCanvas
  /\ last' = [ev |-> "touchstart"]
  /\ calls' = <<>>
  /\ UNCHANGED <<interactionMode, zoom, pan, isPanning,
                 lastPanPoint, lastTouchDistance>>

handleTouchMove1(p) ==
  /\ app = "desktop"
  /\ down = "none"
  /\ touches = 1
  /\ isPanning
  /\ ops < MaxOps
  /\ ops' = ops + 1
  /\ pan' = PanBy(pan, lastPanPoint, RPt(p), PanSpeedTouch)
  /\ lastPanPoint' = RPt(p)
  /\ UNCHANGED offCanvas
  /\ last' = [ev |-> "touchmove"]
  /\ calls' = <<>>
  /\ UNCHANGED <<interactionMode, zoom, isPanning, isTouch,
                 lastTouchDistance, touches>>

\* was the event before this one the landing of a finger beside one that a
\* lift had left alone?
Relanded == last.ev = "touchstart" /\ "again" \in DOMAIN last /\ last.again

handleTouchMove2(c, h) ==
  /\ app = "desktop"
  /\ down = "none"
  /\ touches = 2
  /\ ops < MaxOps
  /\ ops' = ops + 1
  /\ LET distance == getTouchDistance(TwoTouches(c, h))
         center == getTouchCenter(TwoTouches(c, h))
         newZoom == ClampZoom(RMul(zoom, RDiv(distance, lastTouchDistance)))
     IN  /\ IF RLt(R(0), lastTouchDistance)
              THEN /\ zoom' = newZoom
                   /\ pan' = ZoomPan(center, pan, zoom, newZoom)
              ELSE UNCHANGED <<zoom, pan>>
         /\ lastTouchDistance' = distance
         /\ lastPanPoint' = center
  /\ UNCHANGED offCanvas
  /\ last' = [ev |-> "touchmove", relanded |-> Relanded]
  /\ calls' = <<>>
  /\ UNCHANGED <<interactionMode, isPanning, isTouch,
                 touches>>

\* touchend leaving `left` fingers, the first of them at p
handleTouchEnd(left, p) ==
  /\ app = "desktop"
  /\ down = "none"
  /\ touches > 0
  /\ left \in 0..(touches - 1)
  /\ touches' = left
  /\ UNCHANGED offCanvas
  /\ last' = [ev |-> "touchend"]
  /\ calls' = <<>>
  /\ UNCHANGED <<interactionMode, zoom, pan, ops>>
  /\ IF left = 0
       THEN /\ isPanning' = FALSE
            /\ isTouch' = FALSE
            /\ lastTouchDistance' = R(0)
            /\ UNCHANGED lastPanPoint
       ELSE IF left = 1
         THEN /\ lastPanPoint' = RPt(p)
              /\ lastTouchDistance' = R(0)
              /\ UNCHANGED <<isPanning, isTouch>>
         ELSE UNCHANGED <<isPanning, isTouch, lastTouchDistance, lastPanPoint>>

\* a reset that leaves the view shifted
HomeViewShifted == [zoom |-> R(1), pan |-> Pt(R(50), R(50))]
\* the view resetView and returnToOrigin set
HomeView == [zoom |-> R(1), pan |-> Pt(R(0), R(0))]

\* resetView and returnToOrigin have the same body
resetView ==
  /\ app = "desktop"
  /\ zoom' = HomeView.zoom
  /\ pan' = HomeView.pan
  /\ UNCHANGED offCanvas
  /\ last' = [ev |-> "reset", moved |-> zoom # R(1) \/ pan # Pt(R(0), R(0))]
  /\ calls' = <<>>
  /\ UNCHANGED <<interactionMode, isPanning, lastPanPoint,
                 isTouch, lastTouchDistance, touches, ops>>

ZoomStep == <<6, 5>>

zoomIn ==
  /\ app = "desktop"
  /\ ops < MaxOps
  /\ ops' = ops + 1
  /\ zoom' = RMin(MaxZoom, RMul(zoom, ZoomStep))
  /\ UNCHANGED offCanvas
  /\ last' = [ev |-> "zoomIn"]
  /\ calls' = <<>>
  /\ UNCHANGED <<interactionMode, pan, isPanning,
                 lastPanPoint, isTouch, lastTouchDistance, touches>>

zoomOut ==
  /\ app = "desktop"
  /\ ops < MaxOps
  /\ ops' = ops + 1
  /\ zoom' = RMax(MinZoom, RDiv(zoom, ZoomStep))
  /\ UNCHANGED offCanvas
  /\ last' = [ev |-> "zoomOut"]
  /\ calls' = <<>>
  /\ UNCHANGED <<interactionMode, pan, isPanning,
                 lastPanPoint, isTouch, lastTouchDistance, touches>>

SetMode(m) ==
  /\ app = "desktop"
  /\ m # interactionMode
  /\ interactionMode' = m
  /\ UNCHANGED offCanvas
  /\ last' = [ev |-> "mode"]
  /\ calls' = <<>>
  /\ UNCHANGED <<viewVars, touches, ops>>

---------------------------------------------------------------------------
(* PersonNode (desktop), touch handlers *)
LongPressMs == 500
DragWindowMs == 200
MoveThreshold == 10
GridSize == 20
NodeHalfWidth == 75
NodeHalfHeight == 50

\* a pointer goes down on a node at this offset from the node's corner
GrabOffset == Pt(40, 20)
GrabPt(n) == Pt(people[n].x + GrabOffset.x, people[n].y + GrabOffset.y)
\* where a pointer that is down can be moved to
MovePts == {Pt(105, 65), Pt(115, 60), Pt(340, 70)}
\* where a finger can leave the screen: the last a point off every person
ReleasePts == MovePts \cup {Pt(240, 200)}
\* what document.elementFromPoint finds under a released pointer
Targets == NodeIds \cup {"none"}

\* a snap that moves every position up to the next grid line
SnapUp(v) == ((v + GridSize) \div GridSize) * GridSize
\* Math.round(v / gridSize) * gridSize; Math.round rounds halves up
Snap(v) == ((2 * v + GridSize) \div (2 * GridSize)) * GridSize

\* a conversion that hands the screen point back as it is
screenToCanvasCoordsRaw(s) == RPt(s)
\* a conversion that forgets the zoom
screenToCanvasCoordsUnzoomed(s) == Pt(RSub(R(s.x), pan.x), RSub(R(s.y), pan.y))
\* the props every PersonNode is rendered with: the canvas hands its ref, zoom
\* and pan to its children, and the tree passes them on to each node
NodeView == [canvasRef |-> TRUE, zoom |-> zoom, pan |-> pan]
screenToCanvasCoords(s) ==
  IF ~NodeView.canvasRef THEN RPt(s)
  ELSE Pt(RDiv(RSub(R(s.x), NodeView.pan.x), NodeView.zoom),
          RDiv(RSub(R(s.y), NodeView.pan.y), NodeView.zoom))

\* window.setTimeout never reuses an id, so the id of a timeout that ran or
\* was cleared only ever compares unequal to the pending ones: every such id
\* is written Spent
Spent == -1

\* the id window.setTimeout returns
FreshId == CHOOSE i \in 1..(Cardinality(NodeIds) + 1) :
             /\ \A t \in timers : t.id # i
             /\ \A j \in 1..(i - 1) : \E t \in timers : t.id = j

\* a clearTimeout that cancels nothing
clearTimeoutNone(id) == timers
clearTimeout(id) == {t \in timers : t.id # id}

\* the ids the nodes hold, once the pending timeouts are tms
Held(lpt, tms) ==
  [n \in NodeIds |-> IF lpt[n] # 0 /\ \A t \in tms : t.id # lpt[n]
                       THEN Spent ELSE lpt[n]]

\* a press that reports nothing to the parent
SelectNone(n) == [cb |-> "none", id |-> n]
Select(n) == [cb |-> "onSelect", id |-> n]
ConnectionDrag(n, start, cur) ==
  [cb |-> "onConnectionDrag", id |-> n, start |-> start, cur |-> cur]
ConnectionDragEnd(n) == [cb |-> "onConnectionDragEnd", id |-> n]
PersonUpdate(n, x, y) == [cb |-> "onPersonUpdate", id |-> n, x |-> x, y |-> y]

\* a parent that stores the position it is given in every person
updatePersonAll(ppl, n, x, y) == [m \in DOMAIN ppl |-> Pt(x, y)]
\* the parent's onPersonUpdate stores the person it is given
updatePerson(ppl, n, x, y) == [ppl EXCEPT ![n] = Pt(x, y)]

OverThreshold(n, p) ==
  \/ Abs(p.x - (people[n].x + dragStart[n].x)) > MoveThreshold
  \/ Abs(p.y - (people[n].y + dragStart[n].y)) > MoveThreshold

\* touchStartTime is read only between a touchstart and the end of that
\* touch; once the finger is up the model no longer tracks it
Forget(n) == [elapsed EXCEPT ![n] = Saturated]

\* a move within the window after the down event may start a drag
\* a window that never closes
InDragWindowEver(n) == TRUE
InDragWindow(n) == elapsed[n] < DragWindowMs

\* the callback of the timer armed by PersonNode.handleTouchStart
\* a callback that never opens the editor
LongPressNever(t) == FALSE
LongPressEdits(t) == t.mode = "navigate"

PersonNode_handleTouchStart(n, p) ==
  /\ app = "desktop"
  /\ p = GrabPt(n)
  /\ touches = 0 /\ down = "none"
  /\ ~isEditing[n]
  /\ touches' = 1
  /\ down' = n
  /\ elapsed' = [elapsed EXCEPT ![n] = 0]
  /\ LET cleared == IF longPressTimer[n] # 0
                      THEN clearTimeout(longPressTimer[n]) ELSE timers
         center == Pt(people[n].x + NodeHalfWidth, people[n].y + NodeHalfHeight)
     IN  IF interactionMode = "connect"
           THEN /\ isConnecting' = [isConnecting EXCEPT ![n] = TRUE]
                /\ dragStart' = [dragStart EXCEPT ![n] = center]
                /\ timers' = cleared
                /\ calls' = <<ConnectionDrag(n, center, screenToCanvasCoords(p)),
                              Select(n)>>
                /\ longPressTimer' = Held(longPressTimer, cleared)
           ELSE /\ dragStart' = [dragStart EXCEPT
                                   ![n] = Pt(p.x - people[n].x, p.y - people[n].y)]
                /\ timers' = cleared \cup
                     {[id |-> FreshId, node |-> n, mode |-> interactionMode]}
                /\ longPressTimer' = [longPressTimer EXCEPT ![n] = FreshId]
                /\ calls' = <<Select(n)>>
                /\ UNCHANGED isConnecting
  /\ ops < MaxOps
  /\ ops' = ops + 1
  /\ gesture' = Pressed(p, interactionMode)
  /\ last' = [ev |-> "touchstart", node |-> n]
  /\ UNCHANGED <<app, interactionMode, viewVars, people, isDragging, isEditing,
                 mobileVars>>

\* the observer after a move to p that emits `emitted` position updates
Moved(n, p, emitted) ==
  [gesture EXCEPT
     !.moved = @ \/ (elapsed[n] < 100
                      /\ (Abs(p.x - gesture.at.x) = 15 \/ Abs(p.y - gesture.at.y) = 15)),
     !.updates = @ + emitted]

\* InteractiveCanvas.handleTouchMove for one finger, reached by bubbling
CanvasPansOnMove(p) ==
  IF isPanning
    THEN /\ pan' = PanBy(pan, lastPanPoint, RPt(p), PanSpeedTouch)
         /\ lastPanPoint' = RPt(p)
    ELSE UNCHANGED <<pan, lastPanPoint>>

Counted(n) == IF isDragging[n] \/ isPanning THEN 1 ELSE 0

PersonNode_handleTouchMove(n, p) ==
  /\ app = "desktop"
  /\ touches = 1 /\ down = n
  /\ ~isEditing[n]
  /\ LET over == longPressTimer[n] # 0 /\ OverThreshold(n, p)
         x == Snap(p.x - dragStart[n].x)
         y == Snap(p.y - dragStart[n].y)
     IN  /\ timers' = IF over THEN clearTimeout(longPressTimer[n]) ELSE timers
         /\ longPressTimer' = IF over THEN [longPressTimer EXCEPT ![n] = 0]
                              ELSE longPressTimer
         /\ isDragging' =
              IF over /\ InDragWindow(n)
                   /\ interactionMode \in {"navigate", "add-person"}
                THEN [isDragging EXCEPT ![n] = TRUE] ELSE isDragging
         /\ IF isDragging[n]
              THEN /\ people' = updatePerson(people, n, x, y)
                   /\ calls' = <<PersonUpdate(n, x, y)>>
              ELSE IF isConnecting[n]
                THEN /\ calls' = <<ConnectionDrag(n, dragStart[n],
                                                  screenToCanvasCoords(p))>>
                     /\ UNCHANGED people
                ELSE /\ calls' = <<>>
                     /\ UNCHANGED people
  /\ CanvasPansOnMove(p)
  /\ ops + Counted(n) <= MaxOps
  /\ ops' = ops + Counted(n)
  /\ gesture' = Moved(n, p, IF isDragging[n] THEN 1 ELSE 0)
  /\ last' = [ev |-> "touchmove", node |-> n]
  /\ UNCHANGED <<app, interactionMode, zoom, isPanning, isTouch,
                 lastTouchDistance, isConnecting, isEditing, dragStart, elapsed,
                 mobileVars, touches, down>>

\* the finger is lifted over `over`
PersonNode_handleTouchEnd(n, over) ==
  /\ app = "desktop"
  /\ touches = 1 /\ down = n
  /\ ~isEditing[n]
  /\ touches' = 0
  /\ down' = "none"
  /\ timers' = IF longPressTimer[n] # 0
                 THEN clearTimeout(longPressTimer[n]) ELSE timers
  /\ longPressTimer' = [longPressTimer EXCEPT ![n] = 0]
  /\ IF isDragging[n]
       THEN /\ isDragging' = [isDragging EXCEPT ![n] = FALSE]
            /\ calls' = <<>>
            /\ UNCHANGED isConnecting
       ELSE IF isConnecting[n]
         THEN /\ isConnecting' = [isConnecting EXCEPT ![n] = FALSE]
              /\ calls' = (IF over \in NodeIds /\ over # n
                             THEN <<Select(n)>> ELSE <<>>)
                          \o <<ConnectionDragEnd(n)>>
              /\ UNCHANGED isDragging
         ELSE /\ calls' = IF interactionMode = "connect" /\ elapsed[n] < DragWindowMs
                            THEN <<Select(n)>> ELSE <<>>
              /\ UNCHANGED <<isDragging, isConnecting>>
  \* bubbles to InteractiveCanvas.handleTouchEnd with no finger left
  /\ isPanning' = FALSE
  /\ isTouch' = FALSE
  /\ lastTouchDistance' = R(0)
  /\ elapsed' = Forget(n)
  /\ gesture' = NoGesture
  /\ last' = [ev |-> "touchend", node |-> n]
  /\ UNCHANGED <<app, interactionMode, zoom, pan, lastPanPoint, people,
                 isEditing, dragStart, mobileVars, ops>>

\* a finger leaves a node whose element was replaced by its edit form while
\* the finger was down: the detached element's handlers no longer run
TouchEndDetached(n) ==
  /\ touches = 1 /\ down = n
  /\ isEditing[n]
  /\ touches' = 0
  /\ down' = "none"
  /\ elapsed' = Forget(n)
  /\ last' = [ev |-> "touchend", node |-> n]
  /\ calls' = <<>>
  /\ gesture' = NoGesture
  /\ UNCHANGED <<app, interactionMode, viewVars, people, isDragging,
                 isConnecting, isEditing, dragStart, longPressTimer, timers,
                 mobileVars, ops>>

\* a pending long-press timeout runs its callback
PersonNode_longPress(t) ==
  /\ app = "desktop"
  /\ t \in timers
  /\ elapsed[t.node] >= LongPressMs
  /\ timers' = timers \ {t}
  /\ longPressTimer' = Held(longPressTimer, timers \ {t})
  /\ isEditing' = IF LongPressEdits(t)
                    THEN [isEditing EXCEPT ![t.node] = TRUE] ELSE isEditing
  /\ gesture' = [gesture EXCEPT !.edits = @ + (IF LongPressEdits(t) THEN 1 ELSE 0),
                                !.fired = TRUE]
  /\ last' = [ev |-> "timer", node |-> t.node]
  /\ calls' = <<>>
  /\ UNCHANGED <<app, interactionMode, viewVars, people, isDragging,
                 isConnecting, dragStart, elapsed, mobileVars,
                 touches, down, ops>>

handleEditSubmit(n) ==
  /\ isEditing[n]
  /\ isEditing' = [isEditing EXCEPT ![n] = FALSE]
  /\ last' = [ev |-> "editDone", node |-> n]
  /\ calls' = <<>>
  /\ UNCHANGED <<app, interactionMode, viewVars, people, isDragging,
                 isConnecting, dragStart, longPressTimer, elapsed, timers,
                 mobileVars, touches, down, gesture, ops>>

\* the relationships rs once the clock has left every id but those in
\* `keep` behind
Past(rs, keep) == [i \in DOMAIN rs |-> [rs[i] EXCEPT !.now = @ /\ rs[i].id \in keep]]

\* 100 ms pass
Tick ==
  /\ \/ \E n \in NodeIds : elapsed[n] < Saturated
     \/ canvasElapsed < Saturated
     \/ \E i \in DOMAIN relationships : relationships[i].now
  /\ relationships' = Past(relationships, {})
  /\ elapsed' = [n \in NodeIds |->
                   IF elapsed[n] + 100 > Saturated THEN Saturated
                   ELSE elapsed[n] + 100]
  /\ canvasElapsed' = IF canvasElapsed + 100 > Saturated THEN Saturated
                      ELSE canvasElapsed + 100
  /\ last' = [ev |-> "tick"]
  /\ calls' = <<>>
  /\ UNCHANGED <<app, interactionMode, viewVars, people, isDragging,
                 isConnecting, isEditing, dragStart, longPressTimer, timers,
                 mode, connectionType, connectionStart, selectedPersonId,
                 showAddForm, addPosition, scale, offset, mIsPanning, isZooming,
                 lastTouchCenter, mLastTouchDistance, touches, down, gesture,
                 ops>>

NodeTouchNext ==
  \/ \E n \in NodeIds : PersonNode_handleTouchStart(n, GrabPt(n))
  \/ \E n \in NodeIds, p \in MovePts : PersonNode_handleTouchMove(n, p)
  \/ \E n \in NodeIds, o \in Targets : PersonNode_handleTouchEnd(n, o)
  \/ \E n \in NodeIds : TouchEndDetached(n)
  \/ \E t \in timers : PersonNode_longPress(t)
  \/ \E n \in NodeIds : handleEditSubmit(n)
  \/ Tick

WheelNext ==
  \E ctrl \in BOOLEAN, d \in WheelInputs, p \in Pts : handleWheel(ctrl, d, p)

MouseNext ==
  \/ \E b \in {0, 1}, alt \in BOOLEAN, t \in CanvasTargets, dis \in BOOLEAN,
        p \in Pts :
       handleMouseDown(b, alt, t, dis, p)
  \/ \E p \in Pts, over \in BOOLEAN : handleMouseMove(p, over)
  \/ handleMouseUp

TouchNext ==
  \/ \E t \in CanvasTargets, p \in Pts : handleTouchStart1(t, p)
  \/ \E k \in 1..2, c \in Pts, h \in Spreads : handleTouchStart2(k, c, h)
  \/ handleTouchStartMany
  \/ \E p \in Pts : handleTouchMove1(p)
  \/ \E c \in Pts, h \in Spreads : handleTouchMove2(c, h)
  \/ \E left \in 0..MaxTouches, p \in Pts : handleTouchEnd(left, p)

ButtonNext ==
  \/ resetView
  \/ zoomIn
  \/ zoomOut

ModeNext == \E m \in Modes : SetMode(m)

\* every event the canvas handles, from any input device
ViewNext == WheelNext \/ MouseNext \/ TouchNext \/ ButtonNext \/ ModeNext
ViewSpec == InitDesktop /\ [][ViewNext]_vars

\* the events that zoom the canvas, and the touches and wheel pans between
ZoomNext == WheelNext \/ TouchNext \/ ButtonNext
ZoomSpec == InitDesktop /\ [][ZoomNext]_vars

TouchSpec == InitDesktop /\ [][NodeTouchNext \/ ModeNext]_vars

---------------------------------------------------------------------------
(* PersonNode (desktop), mouse handlers *)

PersonNode_handleMouseDown(n, p) ==
  /\ app = "desktop"
  /\ p = GrabPt(n)
  /\ touches = 0 /\ down = "none"
  /\ ~isEditing[n]
  /\ ops < MaxOps
  /\ ops' = ops + 1
  /\ down' = n
  /\ LET center == Pt(people[n].x + NodeHalfWidth, people[n].y + NodeHalfHeight)
     IN  IF interactionMode = "connect"
           THEN /\ isConnecting' = [isConnecting EXCEPT ![n] = TRUE]
                /\ dragStart' = [dragStart EXCEPT ![n] = center]
                /\ calls' = <<ConnectionDrag(n, center, screenToCanvasCoords(p)),
                              Select(n)>>
                /\ UNCHANGED isDragging
           ELSE /\ isDragging' = [isDragging EXCEPT ![n] = TRUE]
                /\ dragStart' = [dragStart EXCEPT
                                   ![n] = Pt(p.x - people[n].x, p.y - people[n].y)]
                /\ calls' = <<Select(n)>>
                /\ UNCHANGED isConnecting
  /\ gesture' = Pressed(p, interactionMode)
  /\ last' = [ev |-> "mousedown", node |-> n]
  /\ UNCHANGED <<app, interactionMode, viewVars, people, isEditing,
                 longPressTimer, elapsed, timers, mobileVars, touches>>

\* the document's mousemove listener of node n, registered while n is
\* dragging or connecting; no canvas pan is in progress
PersonNode_handleMouseMove(n, p) ==
  /\ app = "desktop"
  /\ touches = 0 /\ ~isPanning
  /\ isDragging[n] \/ isConnecting[n]
  /\ IF isDragging[n]
       THEN LET x == Snap(p.x - dragStart[n].x)
                y == Snap(p.y - dragStart[n].y)
            IN  /\ ops < MaxOps
                /\ ops' = ops + 1
                /\ people' = updatePerson(people, n, x, y)
                /\ calls' = <<PersonUpdate(n, x, y)>>
       ELSE /\ calls' = <<ConnectionDrag(n, dragStart[n], screenToCanvasCoords(p))>>
            /\ UNCHANGED <<people, ops>>
  /\ gesture' = Moved(n, p, IF isDragging[n] THEN 1 ELSE 0)
  /\ last' = [ev |-> "mousemove", node |-> n]
  /\ UNCHANGED <<app, interactionMode, viewVars, isDragging, isConnecting,
                 isEditing, dragStart, longPressTimer, elapsed, timers,
                 mobileVars, touches, down>>

\* what handleMouseUp and handleGlobalMouseUp do to node n's flags
Released(flags, n) == [flags EXCEPT ![n] = FALSE]

\* the callbacks of one run of handleGlobalMouseUp of node n
GlobalUpCalls(n) ==
  IF ~isDragging[n] /\ isConnecting[n] THEN <<ConnectionDragEnd(n)>> ELSE <<>>

\* the callbacks of handleMouseUp of the node o under the pointer
UpCalls(o) ==
  IF isDragging[o] THEN <<>>
  ELSE IF isConnecting[o] THEN <<ConnectionDragEnd(o)>>
  ELSE IF interactionMode = "connect" THEN <<Select(o)>> ELSE <<>>

\* The button pressed on n is released over `over`.  The element under the
\* pointer runs handleMouseUp, then the document listener of n runs
\* handleGlobalMouseUp, unless (rerendered) React has re-rendered n and
\* removed that listener in between, which it can only do when the first
\* handler changed n's own state.
PersonNode_handleMouseUp(n, over, rerendered) ==
  /\ app = "desktop"
  /\ touches = 0 /\ down = n
  /\ rerendered => over = n
  /\ down' = "none"
  /\ LET onElement == IF over \in NodeIds /\ ~isEditing[over]
                        THEN UpCalls(over) ELSE <<>>
         onDocument == IF rerendered THEN <<>> ELSE GlobalUpCalls(n)
     IN  calls' = onElement \o onDocument
  /\ isDragging' = IF isDragging[n] THEN Released(isDragging, n) ELSE isDragging
  /\ isConnecting' = IF ~isDragging[n] /\ isConnecting[n]
                       THEN Released(isConnecting, n) ELSE isConnecting
  /\ gesture' = NoGesture
  /\ last' = [ev |-> "mouseup", node |-> n]
  /\ UNCHANGED <<app, interactionMode, viewVars, people, isEditing, dragStart,
                 longPressTimer, elapsed, timers, mobileVars, touches, ops>>

handleDoubleClick(n) ==
  /\ app = "desktop"
  /\ touches = 0 /\ down = "none"
  /\ ~isEditing[n]
  /\ interactionMode = "navigate"
  /\ isEditing' = [isEditing EXCEPT ![n] = TRUE]
  /\ last' = [ev |-> "dblclick", node |-> n]
  /\ calls' = <<>>
  /\ UNCHANGED <<app, interactionMode, viewVars, people, isDragging,
                 isConnecting, dragStart, longPressTimer, elapsed, timers,
                 mobileVars, touches, down, gesture, ops>>

NodeMouseNext ==
  \/ \E n \in NodeIds : PersonNode_handleMouseDown(n, GrabPt(n))
  \/ \E n \in NodeIds, p \in MovePts : PersonNode_handleMouseMove(n, p)
  \/ \E n \in NodeIds, o \in Targets, r \in BOOLEAN :
       PersonNode_handleMouseUp(n, o, r)
  \/ \E n \in NodeIds : handleDoubleClick(n)
  \/ \E n \in NodeIds : handleEditSubmit(n)

MouseSpec == InitDesktop /\ [][NodeMouseNext \/ ModeNext]_vars

---------------------------------------------------------------------------
(* The mobile app: MobilePersonNode, MobileCanvas, MobileFamilyTreeApp *)
MobileLongPressMs == 600
MobileTapMs == 200
MobileHalfWidth == 60
MobileHalfHeight == 30

MobileModes == {"navigate", "add", "connect"}
\* two of the three values the type selector offers
ConnectionTypes == {"parent", "spouse"}

\* the screen point at which a finger goes down on person n
MobileGrabPt(n) == Pt(people[n].x * scale + offset.x + GrabOffset.x,
                      people[n].y * scale + offset.y + GrabOffset.y)

PersonSelect(n) == [cb |-> "onPersonSelect", id |-> n]
ConnectionStart(n, x, y) == [cb |-> "onConnectionStart", id |-> n, x |-> x, y |-> y]
CanvasTouch(x, y) == [cb |-> "onCanvasTouch", x |-> x, y |-> y]

Draft(n, x, y) == <<[personId |-> n, x |-> x, y |-> y]>>
\* a relationship; `now` tells whether Date.now() can still return its id,
\* which it can until time is seen to pass
Relationship(id, type, from, to) ==
  [id |-> id, now |-> TRUE, type |-> type, from |-> from, to |-> to]

\* is r a relationship of this type between these two persons?
Joins(r, type, from, to) == r.type = type /\ r.from = from /\ r.to = to

\* the largest id among the relationships rs, 0 when there is none
Latest(rs) ==
  IF rs = <<>> THEN 0
  ELSE CHOOSE v \in {rs[i].id : i \in DOMAIN rs} :
         \A i \in DOMAIN rs : rs[i].id <= v

\* what Date.now() can return when a relationship is created: the clock
\* does not run backwards, and it need not have advanced since the latest
\* relationship was created unless time has passed in between
DateNow ==
  IF \E i \in DOMAIN relationships : relationships[i].now
    THEN {Latest(relationships), Latest(relationships) + 1}
    ELSE {Latest(relationships) + 1}

\* (clientX - rect.left - offset.x) / scale, per axis
MobileToWorld(p) == Pt((p.x - offset.x) \div scale, (p.y - offset.y) \div scale)

\* handleConnectionStart: the draft it leaves, given the one set so far
handleConnectionStart(cs, n, x, y) ==
  IF mode = "connect" THEN Draft(n, x, y) ELSE cs

\* a completion that does not compare the two ends
CompletesWithAny(n) == connectionStart # <<>>

\* may handlePersonSelect complete the draft with a tap on n?
CompletesWith(n) ==
  connectionStart # <<>> /\ connectionStart[1].personId # n

\* handlePersonSelect reads the connectionStart of the last render; cs is the
\* value set earlier in the same event
SelectDraft(cs, n) ==
  IF mode # "connect" THEN cs
  ELSE IF CompletesWith(n) THEN <<>>
  ELSE IF connectionStart = <<>>
    THEN Draft(n, people[n].x + MobileHalfWidth, people[n].y + MobileHalfHeight)
  ELSE cs

SelectRelationships(n, now) ==
  IF mode = "connect" /\ CompletesWith(n)
    THEN Append(Past(relationships, {now}),
                Relationship(now, connectionType, connectionStart[1].personId, n))
    ELSE relationships

\* handleCanvasTouch: the draft it leaves
CanvasTouchDraft == IF mode # "add" /\ connectionStart # <<>> THEN <<>>
                    ELSE connectionStart

MobilePersonNode_handleTouchStart(n, p) ==
  /\ app = "mobile"
  /\ ~showAddForm
  /\ n \in DOMAIN people
  /\ p = MobileGrabPt(n)
  /\ touches = 0 /\ down = "none"
  /\ ~isEditing[n]
  /\ ops < MaxOps
  /\ ops' = ops + 1
  /\ touches' = 1
  /\ down' = n
  /\ elapsed' = [elapsed EXCEPT ![n] = 0]
  /\ LET cleared == IF longPressTimer[n] # 0
                      THEN clearTimeout(longPressTimer[n]) ELSE timers
         x == people[n].x + MobileHalfWidth
         y == people[n].y + MobileHalfHeight
     IN  IF mode = "connect"
           THEN /\ timers' = cleared
                /\ longPressTimer' = Held(longPressTimer, cleared)
                /\ connectionStart' =
                     SelectDraft(handleConnectionStart(connectionStart, n, x, y), n)
                /\ calls' = <<ConnectionStart(n, x, y), PersonSelect(n)>>
                /\ UNCHANGED dragStart
           ELSE /\ dragStart' = [dragStart EXCEPT
                                   ![n] = Pt(p.x - people[n].x, p.y - people[n].y)]
                /\ timers' = cleared \cup
                     {[id |-> FreshId, node |-> n, mode |-> mode]}
                /\ longPressTimer' = [longPressTimer EXCEPT ![n] = FreshId]
                /\ connectionStart' = SelectDraft(connectionStart, n)
                /\ calls' = <<PersonSelect(n)>>
  /\ \E now \in DateNow : relationships' = SelectRelationships(n, now)
  /\ selectedPersonId' = n
  \* bubbles to MobileCanvas.handleTouchStart, which returns for a person
  /\ canvasElapsed' = 0
  /\ gesture' = Pressed(p, mode)
  /\ last' = [ev |-> "touchstart", node |-> n]
  /\ UNCHANGED <<app, interactionMode, viewVars, people, isDragging,
                 isConnecting, isEditing, mode, connectionType, showAddForm,
                 addPosition, scale, offset, mIsPanning, isZooming,
                 lastTouchCenter, mLastTouchDistance>>

\* MobileCanvas.handleTouchMove for one finger
MobileCanvasPans(p) ==
  IF mIsPanning /\ mode \in {"navigate", "connect"}
    THEN /\ offset' = Pt(offset.x + (p.x - lastTouchCenter.x),
                         offset.y + (p.y - lastTouchCenter.y))
         /\ lastTouchCenter' = p
    ELSE UNCHANGED <<offset, lastTouchCenter>>

MobileCounted(n) ==
  IF (isDragging[n] /\ mode # "connect")
     \/ (mIsPanning /\ mode \in {"navigate", "connect"}) THEN 1 ELSE 0

Max0(v) == IF v < 0 THEN 0 ELSE v

MobilePersonNode_handleTouchMove(n, p) ==
  /\ app = "mobile"
  /\ touches = 1 /\ down = n
  /\ ~isEditing[n]
  /\ IF mode = "connect"
       THEN /\ calls' = <<>>
            /\ UNCHANGED <<timers, longPressTimer, isDragging, people>>
       ELSE LET over == longPressTimer[n] # 0 /\ OverThreshold(n, p)
                x == Snap(Max0(p.x - dragStart[n].x))
                y == Snap(Max0(p.y - dragStart[n].y))
            IN  /\ timers' = IF over THEN clearTimeout(longPressTimer[n])
                             ELSE timers
                /\ longPressTimer' = IF over
                                       THEN [longPressTimer EXCEPT ![n] = 0]
                                       ELSE longPressTimer
                /\ isDragging' = IF over THEN [isDragging EXCEPT ![n] = TRUE]
                                 ELSE isDragging
                /\ IF isDragging[n]
                     THEN /\ people' = updatePerson(people, n, x, y)
                          /\ calls' = <<PersonUpdate(n, x, y)>>
                     ELSE /\ calls' = <<>>
                          /\ UNCHANGED people
  \* bubbles to MobileCanvas.handleTouchMove
  /\ MobileCanvasPans(p)
  /\ ops + MobileCounted(n) <= MaxOps
  /\ ops' = ops + MobileCounted(n)
  /\ gesture' = Moved(n, p, IF isDragging[n] /\ mode # "connect" THEN 1 ELSE 0)
  /\ last' = [ev |-> "touchmove", node |-> n]
  /\ UNCHANGED <<app, interactionMode, viewVars, isConnecting, isEditing,
                 dragStart, elapsed, appVars, scale, mIsPanning, isZooming,
                 mLastTouchDistance, canvasElapsed, touches, down>>

\* MobileCanvas.handleTouchEnd with no finger left on the screen; every
\* element inside the canvas, a person included, lies in .canvas-content
MobileCanvasEnds ==
  /\ mIsPanning' = FALSE
  /\ isZooming' = FALSE
  /\ IF canvasElapsed < MobileTapMs /\ mode = "connect" /\ ~mIsPanning
       THEN connectionStart' = CanvasTouchDraft
       ELSE UNCHANGED connectionStart

MobileTapCalls(p) ==
  IF canvasElapsed < MobileTapMs /\ mode = "connect" /\ ~mIsPanning
    THEN <<CanvasTouch(MobileToWorld(p).x, MobileToWorld(p).y)>> ELSE <<>>

\* the finger leaves the screen at p
MobilePersonNode_handleTouchEnd(n, p) ==
  /\ app = "mobile"
  /\ touches = 1 /\ down = n
  /\ ~isEditing[n]
  /\ touches' = 0
  /\ down' = "none"
  /\ timers' = IF longPressTimer[n] # 0
                 THEN clearTimeout(longPressTimer[n]) ELSE timers
  /\ longPressTimer' = [longPressTimer EXCEPT ![n] = 0]
  /\ isDragging' = [isDragging EXCEPT ![n] = FALSE]
  /\ MobileCanvasEnds
  /\ calls' = MobileTapCalls(p)
  /\ elapsed' = Forget(n)
  /\ canvasElapsed' = Saturated
  /\ gesture' = NoGesture
  /\ last' = [ev |-> "touchend", node |-> n, tap |-> Tapped]
  /\ UNCHANGED <<app, interactionMode, viewVars, people, isConnecting,
                 isEditing, dragStart, mode, connectionType, relationships,
                 selectedPersonId, showAddForm, addPosition, scale, offset,
                 lastTouchCenter, mLastTouchDistance, ops>>

\* the callback of the timer armed by MobilePersonNode.handleTouchStart
MobilePersonNode_longPress(t) ==
  /\ app = "mobile"
  /\ t \in timers
  /\ elapsed[t.node] >= MobileLongPressMs
  /\ timers' = timers \ {t}
  /\ isEditing' = [isEditing EXCEPT ![t.node] = TRUE]
  /\ longPressTimer' = [longPressTimer EXCEPT ![t.node] = 0]
  /\ gesture' = [gesture EXCEPT !.edits = @ + 1, !.fired = TRUE]
  /\ last' = [ev |-> "timer", node |-> t.node]
  /\ calls' = <<>>
  /\ UNCHANGED <<app, interactionMode, viewVars, people, isDragging,
                 isConnecting, dragStart, elapsed, mobileVars, touches, down,
                 ops>>

\* touchstart of a single finger on the canvas, not on a person
MobileCanvas_handleTouchStart1(p) ==
  /\ app = "mobile"
  /\ ~showAddForm
  /\ touches = 0 /\ down = "none"
  /\ ops < MaxOps
  /\ ops' = ops + 1
  /\ touches' = 1
  /\ canvasElapsed' = 0
  /\ lastTouchCenter' = p
  /\ IF mode = "add"
       THEN /\ addPosition' = Pt(MobileToWorld(p).x - MobileHalfWidth,
                                 MobileToWorld(p).y - MobileHalfHeight)
            /\ showAddForm' = TRUE
            /\ calls' = <<CanvasTouch(MobileToWorld(p).x, MobileToWorld(p).y)>>
            /\ UNCHANGED mIsPanning
       ELSE /\ mIsPanning' = TRUE
            /\ calls' = <<>>
            /\ UNCHANGED <<addPosition, showAddForm>>
  /\ last' = [ev |-> "touchstart"]
  /\ UNCHANGED <<app, interactionMode, viewVars, nodeVars, mode, connectionType,
                 connectionStart, relationships, selectedPersonId, scale,
                 offset, isZooming, mLastTouchDistance, down, gesture>>

\* touchstart that brings a second finger to the canvas
MobileCanvas_handleTouchStart2(c, h) ==
  /\ app = "mobile"
  /\ touches = 1 /\ down = "none"
  /\ ops < MaxOps
  /\ ops' = ops + 1
  /\ touches' = 2
  /\ canvasElapsed' = 0
  /\ isZooming' = TRUE
  /\ mIsPanning' = FALSE
  /\ mLastTouchDistance' = getTouchDistance(TwoTouches(c, h))[1]
  /\ lastTouchCenter' = Pt(c.x, c.y)
  /\ last' = [ev |-> "touchstart"]
  /\ calls' = <<>>
  /\ UNCHANGED <<app, interactionMode, viewVars, nodeVars, appVars, scale,
                 offset, down, gesture>>

\* one finger moves over the canvas
MobileCanvas_handleTouchMove1(p) ==
  /\ app = "mobile"
  /\ touches = 1 /\ down = "none"
  /\ mIsPanning /\ mode \in {"navigate", "connect"}
  /\ ops < MaxOps
  /\ ops' = ops + 1
  /\ MobileCanvasPans(p)
  /\ last' = [ev |-> "touchmove"]
  /\ calls' = <<>>
  /\ UNCHANGED <<app, interactionMode, viewVars, nodeVars, appVars, scale,
                 mIsPanning, isZooming, mLastTouchDistance, canvasElapsed,
                 touches, down, gesture>>

\* two fingers move to c -+ h: the pinch branch changes nothing
MobileCanvas_handleTouchMove2(c, h) ==
  /\ app = "mobile"
  /\ touches = 2 /\ isZooming
  /\ last' = [ev |-> "pinchmove"]
  /\ calls' = <<>>
  /\ UNCHANGED <<app, interactionMode, viewVars, nodeVars, mobileVars, touches,
                 down, gesture, ops>>

\* a finger that went down on the canvas leaves it at p, `left` remain
MobileCanvas_handleTouchEnd(left, p) ==
  /\ app = "mobile"
  /\ touches > 0 /\ down = "none"
  /\ left = touches - 1
  /\ touches' = left
  /\ IF left = 0
       THEN /\ MobileCanvasEnds
            /\ calls' = MobileTapCalls(p)
            /\ canvasElapsed' = Saturated
       ELSE /\ calls' = <<>>
            /\ UNCHANGED <<mIsPanning, isZooming, connectionStart, canvasElapsed>>
  /\ last' = [ev |-> "touchend"]
  /\ UNCHANGED <<app, interactionMode, viewVars, nodeVars, mode, connectionType,
                 relationships, selectedPersonId, showAddForm, addPosition,
                 scale, offset, lastTouchCenter, mLastTouchDistance, down, gesture,
                 ops>>

setMode(m) ==
  /\ app = "mobile"
  /\ ~showAddForm
  /\ m # mode
  /\ mode' = m
  /\ last' = [ev |-> "mode"]
  /\ calls' = <<>>
  /\ UNCHANGED <<app, interactionMode, viewVars, nodeVars, connectionType,
                 connectionStart, relationships, selectedPersonId, showAddForm,
                 addPosition, mcanvasVars, touches, down, gesture, ops>>

setConnectionType(t) ==
  /\ app = "mobile"
  /\ mode = "connect"
  /\ t # connectionType
  /\ connectionType' = t
  /\ last' = [ev |-> "type"]
  /\ calls' = <<>>
  /\ UNCHANGED <<app, interactionMode, viewVars, nodeVars, mode,
                 connectionStart, relationships, selectedPersonId, showAddForm,
                 addPosition, mcanvasVars, touches, down, gesture, ops>>

\* the add form's Cancel button
cancelAddForm ==
  /\ app = "mobile"
  /\ showAddForm
  /\ showAddForm' = FALSE
  /\ last' = [ev |-> "cancelAdd"]
  /\ calls' = <<>>
  /\ UNCHANGED <<app, interactionMode, viewVars, nodeVars, mode, connectionType,
                 connectionStart, relationships, selectedPersonId, addPosition,
                 mcanvasVars, touches, down, gesture, ops>>

\* the tree a picked file holds: the one the app was started with
ImportedPeople == StoredPeople
NoPeople == [n \in {} |-> Pt(0, 0)]

\* The menu's Clear All item; `confirmed` is the answer to the confirm
\* dialog.  The persons' components are unmounted: their state is gone, and
\* a timeout still pending for one of them has no effect when it runs.
handleClear(confirmed) ==
  /\ app = "mobile"
  /\ ~showAddForm
  /\ touches = 0 /\ down = "none"
  /\ IF confirmed
       THEN /\ people' = NoPeople
            /\ relationships' = <<>>
            /\ offset' = Pt(0, 0)
            /\ scale' = 1
            /\ isDragging' = [n \in NodeIds |-> FALSE]
            /\ isConnecting' = [n \in NodeIds |-> FALSE]
            /\ isEditing' = [n \in NodeIds |-> FALSE]
            /\ dragStart' = [n \in NodeIds |-> Pt(0, 0)]
            /\ longPressTimer' = [n \in NodeIds |-> 0]
            /\ timers' = {}
       ELSE UNCHANGED <<people, relationships, offset, scale, isDragging,
                        isConnecting, isEditing, dragStart, longPressTimer,
                        timers>>
  /\ last' = [ev |-> "clear", moved |-> offset # Pt(0, 0)]
  /\ calls' = <<>>
  /\ UNCHANGED <<app, interactionMode, viewVars, elapsed, mode, connectionType,
                 connectionStart, selectedPersonId, showAddForm, addPosition,
                 mIsPanning, isZooming, lastTouchCenter, mLastTouchDistance,
                 canvasElapsed, touches, down, gesture, ops>>

\* The menu's Import item, at the time the file picker's promise settles;
\* `ok` when the file was read and parsed.  Persons that were on the canvas
\* keep their components, the others are mounted afresh.
handleImport(ok) ==
  /\ app = "mobile"
  /\ ~showAddForm
  /\ touches = 0 /\ down = "none"
  /\ IF ok
       THEN /\ people' = ImportedPeople
            /\ relationships' = <<>>
            /\ offset' = Pt(0, 0)
            /\ scale' = 1
       ELSE UNCHANGED <<people, relationships, offset, scale>>
  /\ last' = [ev |-> "import", moved |-> offset # Pt(0, 0)]
  /\ calls' = <<>>
  /\ UNCHANGED <<app, interactionMode, viewVars, isDragging, isConnecting,
                 isEditing, dragStart, longPressTimer, elapsed, timers, mode,
                 connectionType, connectionStart, selectedPersonId, showAddForm,
                 addPosition, mIsPanning, isZooming, lastTouchCenter,
                 mLastTouchDistance, canvasElapsed, touches, down, gesture, ops>>

\* the ids some part of the tree or of the app's state holds
IdsInUse ==
  DOMAIN people
    \cup {connectionStart[i].personId : i \in DOMAIN connectionStart}
    \cup {relationships[i].from : i \in DOMAIN relationships}
    \cup {relationships[i].to : i \in DOMAIN relationships}
    \cup {selectedPersonId}

\* the add form's submit button.  The new person's id is
\* Date.now().toString(): an id nothing in the app holds yet.  Its component
\* is mounted with the initial state.
addPerson(n) ==
  /\ app = "mobile"
  /\ showAddForm
  /\ n \in NodeIds \ IdsInUse
  /\ people' = [m \in DOMAIN people \cup {n} |->
                  IF m = n THEN addPosition ELSE people[m]]
  /\ showAddForm' = FALSE
  /\ isDragging' = [isDragging EXCEPT ![n] = FALSE]
  /\ isConnecting' = [isConnecting EXCEPT ![n] = FALSE]
  /\ isEditing' = [isEditing EXCEPT ![n] = FALSE]
  /\ dragStart' = [dragStart EXCEPT ![n] = Pt(0, 0)]
  /\ longPressTimer' = [longPressTimer EXCEPT ![n] = 0]
  /\ timers' = {t \in timers : t.node # n}
  /\ last' = [ev |-> "addPerson", node |-> n]
  /\ calls' = <<>>
  /\ UNCHANGED <<app, interactionMode, viewVars, elapsed, mode, connectionType,
                 connectionStart, relationships, selectedPersonId, addPosition,
                 mcanvasVars, touches, down, gesture, ops>>

\* deletePerson's filter of the relationships
WithoutPerson(rs, n) == SelectSeq(rs, LAMBDA r : r.from # n /\ r.to # n)

\* The Delete button of a person's editor; `confirmed` is the answer to the
\* confirm dialog.  The person's component is unmounted.
deletePerson(n, confirmed) ==
  /\ app = "mobile"
  /\ n \in DOMAIN people
  /\ isEditing[n]
  /\ touches = 0 /\ down = "none"
  /\ IF confirmed
       THEN /\ people' = [m \in DOMAIN people \ {n} |-> people[m]]
            /\ relationships' = WithoutPerson(relationships, n)
            /\ selectedPersonId' = "null"
            /\ isDragging' = [isDragging EXCEPT ![n] = FALSE]
            /\ isConnecting' = [isConnecting EXCEPT ![n] = FALSE]
            /\ isEditing' = [isEditing EXCEPT ![n] = FALSE]
            /\ dragStart' = [dragStart EXCEPT ![n] = Pt(0, 0)]
            /\ longPressTimer' = [longPressTimer EXCEPT ![n] = 0]
            /\ timers' = {t \in timers : t.node # n}
       ELSE UNCHANGED <<people, relationships, selectedPersonId, isDragging,
                        isConnecting, isEditing, dragStart, longPressTimer,
                        timers>>
  /\ last' = [ev |-> "deletePerson", node |-> n, confirmed |-> confirmed]
  /\ calls' = <<>>
  /\ UNCHANGED <<app, interactionMode, viewVars, elapsed, mode, connectionType,
                 connectionStart, showAddForm, addPosition, mcanvasVars,
                 touches, down, gesture, ops>>

\* deleteRelationship's filter of the relationships
WithoutId(rs, id) == SelectSeq(rs, LAMBDA r : r.id # id)

\* is the line of relationship i drawn? (both its persons are in the tree)
Drawn(i) ==
  relationships[i].from \in DOMAIN people /\ relationships[i].to \in DOMAIN people

\* A tap on the line or the label of relationship i; `confirmed` is the
\* answer to the confirm dialog.  The line's touchstart and touchend stop the
\* propagation to the canvas, and neither looks at the other fingers on the
\* screen.
deleteRelationship(i, confirmed) ==
  /\ app = "mobile"
  /\ ~showAddForm
  /\ i \in DOMAIN relationships
  /\ Drawn(i)
  /\ relationships' = IF confirmed THEN WithoutId(relationships, relationships[i].id)
                      ELSE relationships
  /\ last' = [ev |-> "deleteRelationship", index |-> i, confirmed |-> confirmed]
  /\ calls' = <<>>
  /\ UNCHANGED <<app, interactionMode, viewVars, nodeVars, mode, connectionType,
                 connectionStart, selectedPersonId, showAddForm, addPosition,
                 mcanvasVars, touches, down, gesture, ops>>

MobileMenuNext ==
  \/ \E c \in BOOLEAN : handleClear(c)
  \/ \E ok \in BOOLEAN : handleImport(ok)

MobileNodeNext ==
  \/ \E n \in NodeIds : MobilePersonNode_handleTouchStart(n, MobileGrabPt(n))
  \/ \E n \in NodeIds, p \in MovePts : MobilePersonNode_handleTouchMove(n, p)
  \/ \E n \in NodeIds, p \in ReleasePts : MobilePersonNode_handleTouchEnd(n, p)
  \/ \E n \in NodeIds : TouchEndDetached(n)
  \/ \E t \in timers : MobilePersonNode_longPress(t)
  \/ \E n \in NodeIds : handleEditSubmit(n)
  \/ Tick

MobileCanvasNext ==
  \/ \E p \in Pts : MobileCanvas_handleTouchStart1(p)
  \/ \E c \in Pts, h \in Spreads : MobileCanvas_handleTouchStart2(c, h)
  \/ \E p \in Pts : MobileCanvas_handleTouchMove1(p)
  \/ \E c \in Pts, h \in Spreads : MobileCanvas_handleTouchMove2(c, h)
  \/ \E left \in 0..MaxTouches, p \in Pts : MobileCanvas_handleTouchEnd(left, p)
  \/ cancelAddForm

MobileAppNext ==
  \/ \E m \in MobileModes : setMode(m)
  \/ \E t \in ConnectionTypes : setConnectionType(t)

MobileSpec == InitMobile /\ [][MobileNodeNext \/ MobileCanvasNext \/ MobileAppNext]_vars

MobileNodeSpec == InitMobile /\ [][MobileNodeNext \/ MobileAppNext]_vars

\* every event on the canvas itself, on either front end
TapNext == ViewNext \/ MobileCanvasNext \/ MobileAppNext
TapSpec == (InitDesktop \/ InitMobile) /\ [][TapNext]_vars

\* every event that changes the view, on either front end
ResetNext == ViewNext \/ MobileCanvasNext \/ MobileAppNext \/ MobileMenuNext
ResetSpec == (InitDesktop \/ InitMobile) /\ [][ResetNext]_vars

\* the touches of the mobile app that start, complete or cancel a connection
\* draft, and the canvas touches made in between
DraftNext ==
  \/ \E n \in NodeIds : MobilePersonNode_handleTouchStart(n, MobileGrabPt(n))
  \/ \E n \in NodeIds, p \in ReleasePts : MobilePersonNode_handleTouchEnd(n, p)
  \/ \E p \in Pts : MobileCanvas_handleTouchStart1(p)
  \/ \E p \in Pts : MobileCanvas_handleTouchMove1(p)
  \/ \E p \in Pts : MobileCanvas_handleTouchEnd(0, p)
  \/ cancelAddForm
  \/ Tick
  \/ MobileAppNext
DraftSpec == InitMobile /\ [][DraftNext]_vars

\* every drag of a person: with the mouse on the desktop, by touch on mobile
DragNext ==
  \/ NodeMouseNext
  \/ ModeNext
  \/ \E n \in NodeIds : MobilePersonNode_handleTouchStart(n, MobileGrabPt(n))
  \/ \E n \in NodeIds, p \in MovePts : MobilePersonNode_handleTouchMove(n, p)
  \/ \E n \in NodeIds, p \in ReleasePts : MobilePersonNode_handleTouchEnd(n, p)
  \/ MobileAppNext
DragSpec == (InitDesktop \/ InitMobile) /\ [][DragNext]_vars

\* every touch on a person, on either front end
PressNext ==
  \/ NodeTouchNext
  \/ ModeNext
  \/ MobileNodeNext
  \/ \E m \in MobileModes : setMode(m)
PressSpec == (InitDesktop \/ InitMobile) /\ [][PressNext]_vars

\* every gesture on a person, on either front end
GestureNext == NodeTouchNext \/ NodeMouseNext \/ ModeNext
                 \/ MobileNodeNext \/ MobileAppNext
GestureSpec == (InitDesktop \/ InitMobile) /\ [][GestureNext]_vars

\* every press and release on a person, with whatever opens or closes its
\* editor or changes the mode in between
DownNext ==
  \/ \E n \in NodeIds : PersonNode_handleTouchStart(n, GrabPt(n))
  \/ \E n \in NodeIds, o \in Targets : PersonNode_handleTouchEnd(n, o)
  \/ \E n \in NodeIds : PersonNode_handleMouseDown(n, GrabPt(n))
  \/ \E n \in NodeIds, o \in Targets, r \in BOOLEAN :
       PersonNode_handleMouseUp(n, o, r)
  \/ \E n \in NodeIds : handleDoubleClick(n)
  \/ \E t \in timers : PersonNode_longPress(t)
  \/ \E n \in NodeIds : MobilePersonNode_handleTouchStart(n, MobileGrabPt(n))
  \/ \E n \in NodeIds, p \in ReleasePts : MobilePersonNode_handleTouchEnd(n, p)
  \/ \E t \in timers : MobilePersonNode_longPress(t)
  \/ \E n \in NodeIds : TouchEndDetached(n)
  \/ \E n \in NodeIds : handleEditSubmit(n)
  \/ Tick
  \/ ModeNext
  \/ MobileAppNext
DownSpec == (InitDesktop \/ InitMobile) /\ [][DownNext]_vars

\* is the screen point at which a pointer goes down on n inside the box
\* the person is drawn in, under the view's pan and zoom?
OnNode(n) ==
  LET w == ToWorld(GrabPt(n), pan, zoom)
  IN  /\ RLe(R(people[n].x), w.x) /\ RLe(w.x, R(people[n].x + 2 * NodeHalfWidth))
      /\ RLe(R(people[n].y), w.y) /\ RLe(w.y, R(people[n].y + 2 * NodeHalfHeight))

\* every press and release on a person and every move of the desktop node,
\* on a canvas that the wheel has zoomed and shifted, with the mode switches
\* in between
LinkNext ==
  \/ \E ctrl \in BOOLEAN, d \in WheelInputs : handleWheel(ctrl, d, Pt(220, 140))
  \/ ModeNext
  \/ \E n \in NodeIds : OnNode(n) /\ PersonNode_handleMouseDown(n, GrabPt(n))
  \/ \E n \in NodeIds, p \in MovePts : PersonNode_handleMouseMove(n, p)
  \/ \E n \in NodeIds, o \in Targets, r \in BOOLEAN :
       PersonNode_handleMouseUp(n, o, r)
  \/ \E n \in NodeIds : OnNode(n) /\ PersonNode_handleTouchStart(n, GrabPt(n))
  \/ \E n \in NodeIds, p \in MovePts : PersonNode_handleTouchMove(n, p)
  \/ \E n \in NodeIds, o \in Targets : PersonNode_handleTouchEnd(n, o)
  \/ \E n \in NodeIds : MobilePersonNode_handleTouchStart(n, MobileGrabPt(n))
  \/ \E n \in NodeIds, p \in ReleasePts : MobilePersonNode_handleTouchEnd(n, p)
  \/ \E m \in MobileModes : setMode(m)
LinkSpec == (InitDesktop \/ InitMobile) /\ [][LinkNext]_vars

\* where a dragged person can be pulled to: the last a point above and left
\* of the grab offset
DragPts == MovePts \cup {Pt(25, 5)}

\* every press, move and release on a person, by touch or mouse, with the
\* mode switches in between
TrackNext ==
  \/ \E n \in NodeIds : PersonNode_handleTouchStart(n, GrabPt(n))
  \/ \E n \in NodeIds, p \in DragPts : PersonNode_handleTouchMove(n, p)
  \/ \E n \in NodeIds, o \in Targets : PersonNode_handleTouchEnd(n, o)
  \/ \E n \in NodeIds : PersonNode_handleMouseDown(n, GrabPt(n))
  \/ \E n \in NodeIds, p \in DragPts : PersonNode_handleMouseMove(n, p)
  \/ \E n \in NodeIds, o \in Targets, r \in BOOLEAN :
       PersonNode_handleMouseUp(n, o, r)
  \/ \E n \in NodeIds : MobilePersonNode_handleTouchStart(n, MobileGrabPt(n))
  \/ \E n \in NodeIds, p \in DragPts : MobilePersonNode_handleTouchMove(n, p)
  \/ \E n \in NodeIds, p \in ReleasePts : MobilePersonNode_handleTouchEnd(n, p)
  \/ ModeNext
  \/ \E m \in MobileModes : setMode(m)
TrackSpec == (InitDesktop \/ InitMobile) /\ [][TrackNext]_vars

---------------------------------------------------------------------------
(* A finger on the canvas and a finger on a person at once *)

\* a second finger lands on person n while a finger rests on the canvas:
\* MobilePersonNode.handleTouchStart reads e.touches[0], the finger on the
\* canvas (at lastTouchCenter), and MobileCanvas.handleTouchStart returns
\* for a person before it looks at the number of touches
MobilePersonNode_handleTouchStartBeside(n) ==
  /\ app = "mobile"
  /\ ~showAddForm
  /\ n \in DOMAIN people
  /\ touches = 1 /\ down = "none"
  /\ ~isEditing[n]
  /\ ops < MaxOps
  /\ ops' = ops + 1
  /\ touches' = 2
  /\ down' = n
  /\ elapsed' = [elapsed EXCEPT ![n] = 0]
  /\ LET cleared == IF longPressTimer[n] # 0
                      THEN clearTimeout(longPressTimer[n]) ELSE timers
         x == people[n].x + MobileHalfWidth
         y == people[n].y + MobileHalfHeight
         p == lastTouchCenter
     IN  /\ IF mode = "connect"
              THEN /\ timers' = cleared
                   /\ longPressTimer' = Held(longPressTimer, cleared)
                   /\ connectionStart' =
                        SelectDraft(handleConnectionStart(connectionStart, n, x, y), n)
                   /\ calls' = <<ConnectionStart(n, x, y), PersonSelect(n)>>
                   /\ UNCHANGED dragStart
              ELSE /\ dragStart' = [dragStart EXCEPT
                                      ![n] = Pt(p.x - people[n].x, p.y - people[n].y)]
                   /\ timers' = cleared \cup
                        {[id |-> FreshId, node |-> n, mode |-> mode]}
                   /\ longPressTimer' = [longPressTimer EXCEPT ![n] = FreshId]
                   /\ connectionStart' = SelectDraft(connectionStart, n)
                   /\ calls' = <<PersonSelect(n)>>
         /\ gesture' = Pressed(p, mode)
  /\ \E now \in DateNow : relationships' = SelectRelationships(n, now)
  /\ selectedPersonId' = n
  /\ canvasElapsed' = 0
  /\ last' = [ev |-> "touchstart", node |-> n]
  /\ UNCHANGED <<app, interactionMode, viewVars, people, isDragging,
                 isConnecting, isEditing, mode, connectionType, showAddForm,
                 addPosition, scale, offset, mIsPanning, isZooming,
                 lastTouchCenter, mLastTouchDistance>>

\* a second finger lands off every person while a finger is held on a
\* person: MobileCanvas.handleTouchStart with two touches
MobileCanvas_handleTouchStartBeside(c, h) ==
  /\ app = "mobile"
  /\ touches = 1 /\ down # "none"
  /\ ops < MaxOps
  /\ ops' = ops + 1
  /\ touches' = 2
  /\ canvasElapsed' = 0
  /\ isZooming' = TRUE
  /\ mIsPanning' = FALSE
  /\ mLastTouchDistance' = getTouchDistance(TwoTouches(c, h))[1]
  /\ lastTouchCenter' = Pt(c.x, c.y)
  /\ last' = [ev |-> "touchstart"]
  /\ calls' = <<>>
  /\ UNCHANGED <<app, interactionMode, viewVars, nodeVars, appVars, scale,
                 offset, down, gesture>>

\* of two fingers the one that is not on the person leaves the screen:
\* MobileCanvas.handleTouchEnd with one touch left does nothing
MobileCanvas_handleTouchEndBeside ==
  /\ app = "mobile"
  /\ touches = 2 /\ down # "none"
  /\ touches' = 1
  /\ last' = [ev |-> "touchend"]
  /\ calls' = <<>>
  /\ UNCHANGED <<app, interactionMode, viewVars, nodeVars, mobileVars, down,
                 gesture, ops>>

\* of two fingers the one on person n leaves the screen
MobilePersonNode_handleTouchEndBeside(n) ==
  /\ app = "mobile"
  /\ touches = 2 /\ down = n
  /\ ~isEditing[n]
  /\ touches' = 1
  /\ down' = "none"
  /\ timers' = IF longPressTimer[n] # 0
                 THEN clearTimeout(longPressTimer[n]) ELSE timers
  /\ longPressTimer' = [longPressTimer EXCEPT ![n] = 0]
  /\ isDragging' = [isDragging EXCEPT ![n] = FALSE]
  /\ elapsed' = Forget(n)
  /\ gesture' = NoGesture
  /\ last' = [ev |-> "touchend", node |-> n, tap |-> Tapped]
  /\ calls' = <<>>
  /\ UNCHANGED <<app, interactionMode, viewVars, people, isConnecting,
                 isEditing, dragStart, mobileVars, ops>>

\* a second finger lands while a finger is held on a person of the desktop
\* canvas: PersonNode.handleTouchStart returns for two touches before it
\* stops the event, and InteractiveCanvas.handleTouchStart prepares a pinch
handleTouchStartBeside(c, h) ==
  /\ app = "desktop"
  /\ touches = 1 /\ down # "none"
  /\ ops < MaxOps
  /\ ops' = ops + 1
  /\ touches' = 2
  /\ isTouch' = TRUE
  /\ isPanning' = FALSE
  /\ lastTouchDistance' = getTouchDistance(TwoTouches(c, h))
  /\ lastPanPoint' = getTouchCenter(TwoTouches(c, h))
  /\ last' = [ev |-> "touchstart"]
  /\ calls' = <<>>
  /\ UNCHANGED <<app, interactionMode, zoom, pan, nodeVars, mobileVars, down,
                 gesture>>

\* one of two fingers moves, one of them held on a person:
\* PersonNode.handleTouchMove returns for two touches and the pinch branch
\* of InteractiveCanvas.handleTouchMove runs
handleTouchMoveBeside(c, h) ==
  /\ app = "desktop"
  /\ touches = 2 /\ down # "none"
  /\ ops < MaxOps
  /\ ops' = ops + 1
  /\ LET distance == getTouchDistance(TwoTouches(c, h))
         center == getTouchCenter(TwoTouches(c, h))
         newZoom == ClampZoom(RMul(zoom, RDiv(distance, lastTouchDistance)))
     IN  /\ IF RLt(R(0), lastTouchDistance)
              THEN /\ zoom' = newZoom
                   /\ pan' = ZoomPan(center, pan, zoom, newZoom)
              ELSE UNCHANGED <<zoom, pan>>
         /\ lastTouchDistance' = distance
         /\ lastPanPoint' = center
  /\ last' = [ev |-> "touchmove", node |-> down]
  /\ calls' = <<>>
  /\ UNCHANGED <<app, interactionMode, isPanning, isTouch, nodeVars,
                 mobileVars, touches, down, gesture>>

\* of two fingers the one that is off every person leaves the screen, the
\* one held on the person stays at p: InteractiveCanvas.handleTouchEnd with
\* one touch left
handleTouchEndBeside(p) ==
  /\ app = "desktop"
  /\ touches = 2 /\ down # "none"
  /\ touches' = 1
  /\ lastPanPoint' = RPt(p)
  /\ lastTouchDistance' = R(0)
  /\ last' = [ev |-> "touchend"]
  /\ calls' = <<>>
  /\ UNCHANGED <<app, interactionMode, zoom, pan, isPanning, isTouch,
                 nodeVars, mobileVars, down, gesture, ops>>

\* of two fingers the one on person n leaves the screen over `over`, the
\* other stays at p
PersonNode_handleTouchEndBeside(n, over, p) ==
  /\ app = "desktop"
  /\ touches = 2 /\ down = n
  /\ ~isEditing[n]
  /\ touches' = 1
  /\ down' = "none"
  /\ timers' = IF longPressTimer[n] # 0
                 THEN clearTimeout(longPressTimer[n]) ELSE timers
  /\ longPressTimer' = [longPressTimer EXCEPT ![n] = 0]
  /\ IF isDragging[n]
       THEN /\ isDragging' = [isDragging EXCEPT ![n] = FALSE]
            /\ calls' = <<>>
            /\ UNCHANGED isConnecting
       ELSE IF isConnecting[n]
         THEN /\ isConnecting' = [isConnecting EXCEPT ![n] = FALSE]
              /\ calls' = (IF over \in NodeIds /\ over # n
                             THEN <<Select(n)>> ELSE <<>>)
                          \o <<ConnectionDragEnd(n)>>
              /\ UNCHANGED isDragging
         ELSE /\ calls' = IF interactionMode = "connect" /\ elapsed[n] < DragWindowMs
                            THEN <<Select(n)>> ELSE <<>>
              /\ UNCHANGED <<isDragging, isConnecting>>
  \* bubbles to InteractiveCanvas.handleTouchEnd with one finger left
  /\ lastPanPoint' = RPt(p)
  /\ lastTouchDistance' = R(0)
  /\ elapsed' = Forget(n)
  /\ gesture' = NoGesture
  /\ last' = [ev |-> "touchend", node |-> n]
  /\ UNCHANGED <<app, interactionMode, zoom, pan, isPanning, isTouch, people,
                 isEditing, dragStart, mobileVars, ops>>

\* the touches on the canvas and on the persons of either front end, one or
\* two fingers at a time, and the long press of a held finger
FingerNext ==
  \/ \E p \in Pts : handleTouchStart1("canvas", p)
  \/ \E k \in 1..2, c \in Pts, h \in Spreads : handleTouchStart2(k, c, h)
  \/ \E p \in Pts : handleTouchMove1(p)
  \/ \E c \in Pts, h \in Spreads : handleTouchMove2(c, h)
  \/ \E left \in 0..MaxTouches, p \in Pts : handleTouchEnd(left, p)
  \/ \E n \in NodeIds : PersonNode_handleTouchStart(n, GrabPt(n))
  \/ \E n \in NodeIds, p \in MovePts : PersonNode_handleTouchMove(n, p)
  \/ \E n \in NodeIds, o \in Targets : PersonNode_handleTouchEnd(n, o)
  \/ \E c \in Pts, h \in Spreads : handleTouchStartBeside(c, h)
  \/ \E c \in Pts, h \in Spreads : handleTouchMoveBeside(c, h)
  \/ \E p \in MovePts : handleTouchEndBeside(p)
  \/ \E n \in NodeIds, o \in Targets, p \in Pts :
       PersonNode_handleTouchEndBeside(n, o, p)
  \/ \E p \in Pts : MobileCanvas_handleTouchStart1(p)
  \/ \E c \in Pts, h \in Spreads : MobileCanvas_handleTouchStart2(c, h)
  \/ \E p \in Pts : MobileCanvas_handleTouchMove1(p)
  \/ \E left \in 0..MaxTouches, p \in Pts : MobileCanvas_handleTouchEnd(left, p)
  \/ \E n \in NodeIds : MobilePersonNode_handleTouchStart(n, MobileGrabPt(n))
  \/ \E n \in NodeIds, p \in MovePts : MobilePersonNode_handleTouchMove(n, p)
  \/ \E n \in NodeIds, p \in ReleasePts : MobilePersonNode_handleTouchEnd(n, p)
  \/ \E n \in NodeIds : MobilePersonNode_handleTouchStartBeside(n)
  \/ \E c \in Pts, h \in Spreads : MobileCanvas_handleTouchStartBeside(c, h)
  \/ MobileCanvas_handleTouchEndBeside
  \/ \E n \in NodeIds : MobilePersonNode_handleTouchEndBeside(n)
  \/ \E n \in NodeIds : TouchEndDetached(n)
  \/ \E t \in timers : PersonNode_longPress(t)
  \/ \E t \in timers : MobilePersonNode_longPress(t)
  \/ Tick
FingerSpec == (InitDesktop \/ InitMobile) /\ [][FingerNext]_vars

\* the presses that open the editor of a person, and the presses made on
\* the canvas and on the open edit form, in every mode
FormNext ==
  \/ \E n \in NodeIds : PersonNode_handleTouchStart(n, GrabPt(n))
  \/ \E n \in NodeIds, o \in Targets : PersonNode_handleTouchEnd(n, o)
  \/ \E n \in NodeIds : handleDoubleClick(n)
  \/ \E t \in timers : PersonNode_longPress(t)
  \/ \E b \in {0, 1}, alt \in BOOLEAN, t \in CanvasTargets, p \in Pts :
       handleMouseDown(b, alt, t, FALSE, p)
  \/ handleMouseUp
  \/ \E t \in CanvasTargets, p \in Pts : handleTouchStart1(t, p)
  \/ \E p \in Pts : handleTouchEnd(0, p)
  \/ \E n \in NodeIds : MobilePersonNode_handleTouchStart(n, MobileGrabPt(n))
  \/ \E n \in NodeIds, p \in ReleasePts : MobilePersonNode_handleTouchEnd(n, p)
  \/ \E t \in timers : MobilePersonNode_longPress(t)
  \/ \E p \in Pts : MobileCanvas_handleTouchStart1(p)
  \/ \E p \in Pts : MobileCanvas_handleTouchEnd(0, p)
  \/ \E n \in NodeIds : TouchEndDetached(n)
  \/ \E n \in NodeIds : handleEditSubmit(n)
  \/ Tick
  \/ ModeNext
  \/ \E m \in MobileModes : setMode(m)
FormSpec == (InitDesktop \/ InitMobile) /\ [][FormNext]_vars

\* the taps that place a person, the presses and moves that draw a
\* connection from a person, and the wheel and the mode switches in between;
\* a tap and a move can be made at the same points of the screen
CoordPts == {Pt(220, 140), Pt(340, 70)}
CoordNext ==
  \/ \E ctrl \in BOOLEAN, d \in {Pt(0, -100), Pt(-50, -50)} :
       handleWheel(ctrl, d, Pt(220, 140))
  \/ ModeNext
  \/ \E p \in CoordPts : handleMouseDown(0, FALSE, "canvas", FALSE, p)
  \/ handleMouseUp
  \/ \E p \in CoordPts : handleTouchStart1("canvas", p)
  \/ \E p \in CoordPts : handleTouchEnd(0, p)
  \/ \E n \in NodeIds : PersonNode_handleMouseDown(n, GrabPt(n))
  \/ \E n \in NodeIds, p \in CoordPts : PersonNode_handleMouseMove(n, p)
  \/ \E n \in NodeIds, o \in Targets, r \in BOOLEAN :
       PersonNode_handleMouseUp(n, o, r)
  \/ \E n \in NodeIds : PersonNode_handleTouchStart(n, GrabPt(n))
  \/ \E n \in NodeIds, p \in CoordPts : PersonNode_handleTouchMove(n, p)
  \/ \E n \in NodeIds, o \in Targets : PersonNode_handleTouchEnd(n, o)
CoordSpec == InitDesktop /\ [][CoordNext]_vars

\* adding and deleting persons, the touches that connect them, the mode
\* switches and Clear All
TreeNext ==
  \/ \E n \in NodeIds : MobilePersonNode_handleTouchStart(n, MobileGrabPt(n))
  \/ \E n \in NodeIds, p \in {Pt(240, 200)} : MobilePersonNode_handleTouchEnd(n, p)
  \/ \E n \in NodeIds : TouchEndDetached(n)
  \/ \E t \in timers : MobilePersonNode_longPress(t)
  \/ Tick
  \/ \E n \in NodeIds : handleEditSubmit(n)
  \/ \E n \in NodeIds, c \in BOOLEAN : deletePerson(n, c)
  \/ \E p \in Pts : MobileCanvas_handleTouchStart1(p)
  \/ \E p \in Pts : MobileCanvas_handleTouchEnd(0, p)
  \/ \E n \in NodeIds : addPerson(n)
  \/ cancelAddForm
  \/ \E m \in MobileModes : setMode(m)
  \/ \E c \in BOOLEAN : handleClear(c)
TreeSpec == InitMobile /\ [][TreeNext]_vars

\* The mobile app in connect mode just after its first relationship, from A
\* to B, was created by a touch on A and a touch on B.
InitLinked ==
  /\ app = "mobile"
  /\ interactionMode = "navigate"
  /\ zoom = R(1)
  /\ pan = Pt(R(0), R(0))
  /\ isPanning = FALSE
  /\ lastPanPoint = Pt(R(0), R(0))
  /\ isTouch = FALSE
  /\ lastTouchDistance = R(0)
  /\ people = StoredPeople
  /\ isDragging = [n \in NodeIds |-> FALSE]
  /\ isConnecting = [n \in NodeIds |-> FALSE]
  /\ isEditing = [n \in NodeIds |-> FALSE]
  /\ dragStart = [n \in NodeIds |-> Pt(0, 0)]
  /\ longPressTimer = [n \in NodeIds |-> 0]
  /\ elapsed = [n \in NodeIds |-> Saturated]
  /\ timers = {}
  /\ mode = "connect"
  /\ connectionType = "parent"
  /\ connectionStart = <<>>
  /\ relationships = <<Relationship(1, "parent", "A", "B")>>
  /\ selectedPersonId = "B"
  /\ scale = 1
  /\ offset = Pt(0, 0)
  /\ mIsPanning = FALSE
  /\ isZooming = FALSE
  /\ lastTouchCenter = Pt(0, 0)
  /\ mLastTouchDistance = 0
  /\ canvasElapsed = Saturated
  /\ showAddForm = FALSE
  /\ addPosition = Pt(0, 0)
  /\ touches = 0
  /\ down = "none"
  /\ gesture = NoGesture
  /\ ops = 0
  /\ last = NoEvent
  /\ calls = <<>>

\* A further finger lands on person n while a finger is held on a person;
\* p is where that first finger, e.touches[0], is by then.
\* MobilePersonNode.handleTouchStart has no check of the number of touches,
\* and MobileCanvas.handleTouchStart returns for a person.
MobilePersonNode_handleTouchStartNext(n, p) ==
  /\ app = "mobile"
  /\ ~showAddForm
  /\ n \in DOMAIN people
  /\ touches >= 1 /\ touches < MaxTouches
  /\ down \in NodeIds
  /\ ~isEditing[n]
  /\ ops < MaxOps
  /\ ops' = ops + 1
  /\ touches' = touches + 1
  /\ elapsed' = [elapsed EXCEPT ![n] = 0]
  /\ LET cleared == IF longPressTimer[n] # 0
                      THEN clearTimeout(longPressTimer[n]) ELSE timers
         x == people[n].x + MobileHalfWidth
         y == people[n].y + MobileHalfHeight
     IN  IF mode = "connect"
           THEN /\ timers' = cleared
                /\ longPressTimer' = Held(longPressTimer, cleared)
                /\ connectionStart' =
                     SelectDraft(handleConnectionStart(connectionStart, n, x, y), n)
                /\ calls' = <<ConnectionStart(n, x, y), PersonSelect(n)>>
                /\ UNCHANGED dragStart
           ELSE /\ dragStart' = [dragStart EXCEPT
                                   ![n] = Pt(p.x - people[n].x, p.y - people[n].y)]
                /\ timers' = cleared \cup
                     {[id |-> FreshId, node |-> n, mode |-> mode]}
                /\ longPressTimer' = [longPressTimer EXCEPT ![n] = FreshId]
                /\ connectionStart' = SelectDraft(connectionStart, n)
                /\ calls' = <<PersonSelect(n)>>
  /\ \E now \in DateNow : relationships' = SelectRelationships(n, now)
  /\ selectedPersonId' = n
  /\ canvasElapsed' = 0
  /\ last' = [ev |-> "touchstart", node |-> n,
              rearmed |-> \E t \in timers : t.node = n]
  /\ UNCHANGED <<app, interactionMode, viewVars, people, isDragging,
                 isConnecting, isEditing, mode, connectionType, showAddForm,
                 addPosition, scale, offset, mIsPanning, isZooming,
                 lastTouchCenter, mLastTouchDistance, down, gesture>>

\* the touches that create relationships, the taps that delete them, and
\* the time that passes in between
LinkedNext ==
  \/ \E n \in NodeIds : MobilePersonNode_handleTouchStart(n, MobileGrabPt(n))
  \/ \E n \in NodeIds : MobilePersonNode_handleTouchEnd(n, Pt(240, 200))
  \/ \E n \in NodeIds : MobilePersonNode_handleTouchStartNext(n, gesture.at)
  \/ Tick
  \/ \E m \in {"navigate", "connect"} : setMode(m)
  \/ \E i \in 1..MaxOps, c \in BOOLEAN : deleteRelationship(i, c)
LinkedSpec == InitLinked /\ [][LinkedNext]_vars

\* a move beyond the 10px a long press allows
TimerPts == {Pt(340, 70)}
\* the presses that arm long-press timers, with one finger and with further
\* fingers on the same person, the moves and releases that cancel them, and
\* the time that lets them run
TimerNext ==
  \/ \E n \in NodeIds : PersonNode_handleTouchStart(n, GrabPt(n))
  \/ \E n \in NodeIds, p \in TimerPts : PersonNode_handleTouchMove(n, p)
  \/ \E n \in NodeIds : PersonNode_handleTouchEnd(n, "none")
  \/ \E t \in timers : PersonNode_longPress(t)
  \/ \E n \in NodeIds : MobilePersonNode_handleTouchStart(n, MobileGrabPt(n))
  \/ MobilePersonNode_handleTouchStartNext(down, gesture.at)
  \/ \E n \in NodeIds, p \in TimerPts : MobilePersonNode_handleTouchMove(n, p)
  \/ \E n \in NodeIds : MobilePersonNode_handleTouchEnd(n, Pt(240, 200))
  \/ \E t \in timers : MobilePersonNode_longPress(t)
  \/ \E n \in NodeIds : TouchEndDetached(n)
  \/ \E n \in NodeIds : handleEditSubmit(n)
  \/ Tick
  \/ ModeNext
  \/ \E m \in MobileModes : setMode(m)
TimerSpec == (InitDesktop \/ InitMobile) /\ [][TimerNext]_vars

---------------------------------------------------------------------------
(* Properties of the view *)

\* C1: whatever zoom operations are performed (wheel, pinch, zoom buttons,
\* reset), the zoom stays within [0.1, 3.0] in every reachable state.
C1_ZoomInRange == 10 * zoom[1] >= zoom[2] /\ zoom[1] <= 3 * zoom[2]

\* a pinch that spreads the fingers fourfold has been clamped at 3.0
C1_Witness == last.ev = "touchmove" /\ touches = 2 /\ zoom = <<3, 1>>

WorldUnder(p, pn, z) == Pt(RDiv(RSub(R(p.x), pn.x), z), RDiv(RSub(R(p.y), pn.y), z))
InZoomRange(z) == 10 * z[1] >= z[2] /\ z[1] <= 3 * z[2]

\* C2: a zoom about the screen point p by a factor f with zoom * f in
\* [0.1, 3.0] (a wheel zoom at the cursor, a pinch at the finger midpoint)
\* leaves the world point under p where it was.
C2_ZoomToPoint ==
  [][/\ \A d \in WheelInputs, p \in Pts :
          /\ last'.ev = "wheel"
          /\ handleWheel(FALSE, d, p) /\ InZoomRange(RMul(zoom, WheelFactor(d.y)))
          => WorldUnder(p, pan', zoom') = WorldUnder(p, pan, zoom)
     /\ \A c \in Pts, h \in Spreads :
          /\ last'.ev = "touchmove" /\ touches = 2
          /\ handleTouchMove2(c, h)
          /\ RLt(R(0), lastTouchDistance)
          /\ InZoomRange(RMul(zoom, RDiv(R(2 * h), lastTouchDistance)))
          => WorldUnder(c, pan', zoom') = WorldUnder(c, pan, zoom)]_vars

\* a pinch has halved or doubled an already zoomed and shifted view
C2_Witness ==
  /\ last.ev = "touchmove" /\ touches = 2
  /\ zoom \notin {R(1), MinZoom, MaxZoom}
  /\ pan.x # R(0) /\ pan.y # R(0)

\* C10: an unmodified wheel event multiplies the zoom by 0.9 when deltaY > 0
\* and by 1.1 otherwise, then clamps it to [0.1, 3.0]; from zoom 1 and pan
\* (0,0), deltaY = -100 at (400,300) gives zoom 1.1 and leaves the world point
\* (400,300) under the screen point (400,300).
C10_WheelZoom ==
  [][\A d \in WheelInputs, p \in Pts :
       last'.ev = "wheel" /\ handleWheel(FALSE, d, p) =>
         LET f == IF d.y > 0 THEN <<9, 10>> ELSE <<11, 10>>
             z == RMul(zoom, f)
         IN  /\ zoom' = IF RLt(z, <<1, 10>>) THEN <<1, 10>>
                        ELSE IF RLt(<<3, 1>>, z) THEN <<3, 1>> ELSE z
             /\ (zoom = R(1) /\ pan = Pt(R(0), R(0)) /\ d = Pt(0, -100)
                 /\ p = Pt(400, 300))
                => /\ zoom' = <<11, 10>>
                   /\ WorldUnder(Pt(400, 300), pan', zoom') = Pt(R(400), R(300))]_vars

\* the first event of a run was the wheel event of the scenario
C10_Witness ==
  /\ last.ev = "wheel" /\ ops = 1
  /\ zoom = <<11, 10>> /\ pan = Pt(R(-40), R(-30))

---------------------------------------------------------------------------
(* Properties of the gestures on a person *)

TouchMoveOn(n, p) ==
  PersonNode_handleTouchMove(n, p) \/ MobilePersonNode_handleTouchMove(n, p)
Armed(n) == \E t \in timers : t.node = n
Beyond10(p) == Abs(p.x - gesture.at.x) > 10 \/ Abs(p.y - gesture.at.y) > 10

ModeKept == gesture.mode = (IF app = "desktop" THEN interactionMode ELSE mode)

LongPressFires(t) == PersonNode_longPress(t) \/ MobilePersonNode_longPress(t)

\* C7: when the long-press timer of a press made in navigate mode expires
\* (no move or release having cancelled it), the node enters editing, for
\* the first and only time in that press, and no position update is emitted.
C7_LongPressEditsOnce ==
  [][\A t \in timers :
       last'.ev = "timer" /\ t.mode = "navigate" /\ LongPressFires(t) =>
         /\ elapsed[t.node] >= (IF app = "desktop" THEN 500 ELSE 600)
         /\ ~isEditing[t.node] /\ isEditing'[t.node]
         /\ gesture.edits = 0 /\ gesture'.edits = 1
         /\ ~Armed(t.node)'
         /\ gesture.updates = 0 /\ people' = people /\ calls' = <<>>]_vars

\* the timer of a press on A in navigate mode has just opened A's editor
C7_Witness ==
  /\ last = [ev |-> "timer", node |-> "A"]
  /\ gesture.mode = "navigate" /\ gesture.edits = 1
  /\ isEditing["A"] /\ down = "A" /\ touches = 1

TouchEndOn(n) ==
  \/ \E o \in Targets : PersonNode_handleTouchEnd(n, o)
  \/ \E p \in ReleasePts : MobilePersonNode_handleTouchEnd(n, p)

OnGrid(c) == c.cb = "onPersonUpdate" => c.x % 20 = 0 /\ c.y % 20 = 0

\* C8 as stated, for a touch: a press in navigate or add-person mode, a move
\* of 15px within 50 ms and a release at 300 ms emit at least one position
\* update, only grid positions are emitted, and the node does not enter
\* editing.
C8_QuickDragUpdates ==
  [][/\ \A n \in NodeIds :
          /\ TouchEndOn(n)
          /\ gesture.mode \in {"navigate", "add-person", "add"}
          /\ gesture.moved /\ elapsed[n] = 300
          => gesture.updates >= 1 /\ gesture.edits = 0
     /\ \A i \in 1..Len(calls') : OnGrid(calls'[i])]_vars

\* the person drawn under the screen point p on the mobile canvas
UnderFinger(p, o) ==
  /\ p.x >= people[o].x + offset.x /\ p.x <= people[o].x + offset.x + 120
  /\ p.y >= people[o].y + offset.y /\ p.y <= people[o].y + offset.y + 60

\* C4 as stated, for the mobile app: in connect mode with no draft pending, a
\* press on A that is released over another person B has created exactly one
\* relationship, (A, B, connectionType), by the time of the release.
C4_DragReleaseConnects ==
  [][\A n \in NodeIds, o \in NodeIds, p \in MovePts :
       /\ MobilePersonNode_handleTouchEnd(n, p)
       /\ gesture.mode = "connect" /\ mode = "connect"
       /\ gesture.from = "null" /\ o # n /\ UnderFinger(p, o)
       => /\ Len(relationships') = gesture.rels + 1
          /\ Joins(relationships'[Len(relationships')], connectionType, n, o)]_vars

\* C5: no relationship ever has the same person at both ends.
C5_NoSelfLoop ==
  \A i \in 1..Len(relationships) : relationships[i].from # relationships[i].to

\* in connect mode A is pressed while the draft already starts at A, and the
\* press has added no relationship
C5_Witness ==
  /\ app = "mobile" /\ mode = "connect" /\ gesture.mode = "connect"
  /\ down = "A" /\ gesture.from = "A"
  /\ last = [ev |-> "touchstart", node |-> "A"]
  /\ Len(relationships) = gesture.rels

\* C6 as stated, for the mobile app: a mode switch made while a finger is
\* down on a person leaves no person dragging and no connection draft, and
\* changes no stored position.
C6_ModeSwitchResets ==
  [][\A m \in MobileModes :
       setMode(m) /\ down # "none"
         => /\ \A n \in NodeIds : ~isDragging'[n]
            /\ connectionStart' = <<>>
            /\ people' = people]_vars

---------------------------------------------------------------------------
(* Properties of the callbacks of a person *)

DownOn(n) ==
  \/ PersonNode_handleTouchStart(n, GrabPt(n))
  \/ PersonNode_handleMouseDown(n, GrabPt(n))
  \/ MobilePersonNode_handleTouchStart(n, MobileGrabPt(n))

Selects(cs) == {i \in 1..Len(cs) : cs[i].cb \in {"onSelect", "onPersonSelect"}}

\* C11: a primary-button mousedown or a single-finger touchstart on a person
\* that is not being edited calls the select callback exactly once, for that
\* person, in each of the three modes and whatever state earlier gestures
\* left behind.
C11_DownSelectsOnce ==
  [][\A n \in NodeIds :
       DownOn(n) => /\ Cardinality(Selects(calls')) = 1
                    /\ \A i \in Selects(calls') : calls'[i].id = n]_vars

\* a mouse press on B in connect mode, made after an earlier press and
\* release, has reported the connection drag and then the selection of B
C11_Witness ==
  /\ last = [ev |-> "mousedown", node |-> "B"]
  /\ interactionMode = "connect" /\ ops >= 2
  /\ Len(calls) = 2 /\ calls[2] = [cb |-> "onSelect", id |-> "B"]

CurrentMode == IF app = "desktop" THEN interactionMode ELSE mode

\* C12 as stated, for gestures during which the mode is not switched: a
\* person's editor opens only from the long-press timer or a double click,
\* and only while the mode is navigate.
C12_EditsOnlyInNavigate ==
  [][\A n \in NodeIds :
       ~isEditing[n] /\ isEditing'[n] /\ gesture.mode \in {"none", CurrentMode}
         => last'.ev \in {"timer", "dblclick"} /\ CurrentMode = "navigate"]_vars

NoneUnder(p) == \A o \in NodeIds : ~UnderFinger(p, o)

\* C13 as stated: when the pointer of a connection in flight from a person
\* is released where no person is, the connection ends without a new
\* relationship: on the desktop the node stops connecting and reports the
\* end of the drag, on mobile the draft is cleared.
C13_ReleaseOverCanvasCancels ==
  [][\A n \in NodeIds :
       /\ (\/ PersonNode_handleTouchEnd(n, "none")
            \/ \E r \in BOOLEAN : PersonNode_handleMouseUp(n, "none", r))
           /\ isConnecting[n] /\ ~isDragging[n]
           => /\ ~isConnecting'[n]
              /\ calls' = <<[cb |-> "onConnectionDragEnd", id |-> n]>>
              /\ relationships' = relationships
       /\ \A p \in ReleasePts :
            /\ MobilePersonNode_handleTouchEnd(n, p)
            /\ mode = "connect" /\ connectionStart # <<>>
            /\ connectionStart[1].personId = n /\ NoneUnder(p)
            => relationships' = relationships /\ connectionStart' = <<>>]_vars

\* C14 as stated: in the mobile app's connect mode, with no draft pending, a
\* touch on A (down, then up after any time) directly followed by a touch on
\* another person B has, when B is released, added exactly one relationship,
\* from A to B with the type selected when B was touched, and left no draft.
C14_TapTapConnects ==
  [][\A n \in NodeIds, p \in ReleasePts :
       /\ MobilePersonNode_handleTouchEnd(n, p)
       /\ mode = "connect" /\ gesture.mode = "connect"
       /\ gesture.prev \in NodeIds \ {n}
       => /\ Len(relationships') = gesture.rels + 1
          /\ Joins(relationships'[Len(relationships')], gesture.type,
                   gesture.prev, n)
          /\ connectionStart' = <<>>]_vars

Coords == (-MaxCoord)..MaxCoord

\* what the move handler snaps: the pointer less the grab offset, on mobile
\* not below 0
Unsnapped(v) == IF app = "mobile" /\ v < 0 THEN 0 ELSE v

DragMoveOn(n, p) ==
  PersonNode_handleMouseMove(n, p) \/ MobilePersonNode_handleTouchMove(n, p)

\* C19: snap(v) is round(v / 20) * 20, the multiple of 20 nearest to v
\* (halves go up), and snap(snap(v)) = snap(v) for every coordinate v; a drag
\* move whose unsnapped coordinate lies on the 20-unit grid emits that same
\* coordinate.
C19_SnapIdempotent ==
  [][\A n \in NodeIds, p \in MovePts :
       DragMoveOn(n, p) /\ calls' # <<>> /\ calls'[1].cb = "onPersonUpdate" =>
         LET ux == Unsnapped(p.x - dragStart[n].x)
             uy == Unsnapped(p.y - dragStart[n].y)
         IN  /\ \A v \in Coords :
                  /\ Snap(v) % 20 = 0
                  /\ Snap(v) - 10 <= v /\ v < Snap(v) + 10
                  /\ Snap(Snap(v)) = Snap(v)
             /\ calls'[1].x = Snap(ux) /\ calls'[1].y = Snap(uy)
             /\ ux % 20 = 0 => calls'[1].x = ux
             /\ uy % 20 = 0 => calls'[1].y = uy]_vars

\* a mouse drag of B to an unsnapped position 300 across, already on the
\* grid, and 50 down has emitted (300, 60)
C19_Witness ==
  /\ app = "desktop" /\ last = [ev |-> "mousemove", node |-> "B"]
  /\ dragStart["B"] = Pt(40, 20)
  /\ calls = <<[cb |-> "onPersonUpdate", id |-> "B", x |-> 300, y |-> 60]>>

---------------------------------------------------------------------------
(* Properties of gestures on the canvas *)

Clamped(z) == IF RLt(z, <<1, 10>>) THEN <<1, 10>>
              ELSE IF RLt(<<3, 1>>, z) THEN <<3, 1>> ELSE z

\* the pan that keeps the world point under the screen point c in place
\* when the zoom goes from z to newZoom
PanAbout(c, pn, z, newZoom) ==
  Pt(RSub(R(c.x), RMul(RSub(R(c.x), pn.x), RDiv(newZoom, z))),
     RSub(R(c.y), RMul(RSub(R(c.y), pn.y), RDiv(newZoom, z))))

\* C15 as stated: on either canvas a two-finger move to the distance d, made
\* when the previous distance is > 0, sets the zoom to
\* clamp(zoom * d / previous, 0.1, 3.0) about the midpoint of the fingers and
\* records d as the previous distance.
C15_PinchZooms ==
  [][\A c \in Pts, h \in Spreads :
       /\ handleTouchMove2(c, h) /\ RLt(R(0), lastTouchDistance)
           => /\ zoom' = Clamped(RMul(zoom, RDiv(R(2 * h), lastTouchDistance)))
              /\ pan' = PanAbout(c, pan, zoom, zoom')
              /\ lastTouchDistance' = R(2 * h)
       /\ MobileCanvas_handleTouchMove2(c, h) /\ mLastTouchDistance > 0
           => /\ R(scale') = Clamped(RMul(R(scale), <<2 * h, mLastTouchDistance>>))
              /\ mLastTouchDistance' = 2 * h]_vars

\* C18: resetView, from whatever view the canvas has, sets zoom = 1 and
\* pan = (0,0); in the mobile app a confirmed Clear All and an import that
\* succeeds leave the same view, scale 1 and offset (0,0).
C18_ResetHome ==
  [][/\ resetView => zoom' = R(1) /\ pan' = Pt(R(0), R(0))
     /\ (handleClear(TRUE) \/ handleImport(TRUE))
        => scale' = 1 /\ offset' = Pt(0, 0)]_vars

\* the reset came when the view had been zoomed or shifted and the canvas
\* was still being panned
C18_Witness ==
  /\ last = [ev |-> "reset", moved |-> TRUE]
  /\ isPanning /\ ops >= 2
  /\ zoom = R(1) /\ pan = Pt(R(0), R(0))

\* the world point under the screen point s, s given in fractions
WorldAt(s, pn, z) == Pt(RDiv(RSub(s.x, pn.x), z), RDiv(RSub(s.y, pn.y), z))

\* C16 as stated: a click on the zoom-in or zoom-out button sets the zoom to
\* clamp(zoom * 1.2, 0.1, 3.0) or clamp(zoom / 1.2, 0.1, 3.0) and, when that
\* changes the zoom, moves the pan so that some screen point the step can be
\* about (a point of the viewport such as its centre, or the last pan point)
\* shows the same world point as before.
C16_ZoomStepAboutPoint ==
  [][(zoomIn \/ zoomOut) =>
       /\ zoomIn => zoom' = Clamped(RMul(zoom, <<12, 10>>))
       /\ zoomOut => zoom' = Clamped(RDiv(zoom, <<12, 10>>))
       /\ zoom' # zoom =>
            \E s \in {RPt(p) : p \in Pts} \cup {lastPanPoint} :
              WorldAt(s, pan', zoom') = WorldAt(s, pan, zoom)]_vars

\* pn shifted by speed times the way from the screen point `from` to `to`
Shifted(pn, from, to, speed) ==
  Pt(RAdd(pn.x, RMul(speed, RSub(to.x, from.x))),
     RAdd(pn.y, RMul(speed, RSub(to.y, from.y))))

\* C17 as stated: while the canvas is panning, a mouse move changes the pan
\* by 0.7 times, and a one-finger touch move by 1.0 times, the displacement
\* of the pointer since the previous pan point, once per event.
C17_PanSpeedOnce ==
  [][\A p \in Pts :
       /\ (\E over \in BOOLEAN : handleMouseMove(p, over))
           => pan' = Shifted(pan, lastPanPoint, RPt(p), <<7, 10>>)
       /\ handleTouchMove1(p)
           => pan' = Shifted(pan, lastPanPoint, RPt(p), <<1, 1>>)]_vars

\* C20 as stated: in the mobile app's connect mode with a draft in flight, a
\* single touch that goes down on the empty canvas and comes up at the same
\* point less than 200 ms later has cleared the draft, and the canvas was
\* not put into Panning by it.
C20_TapCancelsDraft ==
  [][\A p \in Pts :
       /\ MobileCanvas_handleTouchEnd(0, p)
       /\ mode = "connect" /\ connectionStart # <<>>
       /\ canvasElapsed < 200 /\ lastTouchCenter = p /\ NoneUnder(p)
       => connectionStart' = <<>> /\ ~mIsPanning]_vars

---------------------------------------------------------------------------
(* Properties of a tap on the canvas *)

\* C9: in add-person mode a tap on the empty canvas at the screen point s
\* calls the place-person callback with (s - pan) / zoom per axis (on mobile
\* (s - offset) / scale); s = (220,140), pan = (50,50), zoom = 2 give (85,45).
C9_TapPlacesAtWorldPoint ==
  [][/\ \A p \in Pts :
          /\ \/ handleMouseDown(0, FALSE, "canvas", FALSE, p)
             \/ handleTouchStart1("canvas", p)
          /\ interactionMode = "add-person"
          => /\ calls' = <<[cb |-> "onCanvasClick",
                            x |-> RDiv(RSub(R(p.x), pan.x), zoom),
                            y |-> RDiv(RSub(R(p.y), pan.y), zoom)]>>
             /\ CanvasClick(ToWorld(Pt(220, 140), Pt(R(50), R(50)), R(2)))
                  = [cb |-> "onCanvasClick", x |-> R(85), y |-> R(45)]
     /\ \A p \in Pts :
          MobileCanvas_handleTouchStart1(p) /\ mode = "add"
          => calls' = <<[cb |-> "onCanvasTouch",
                         x |-> (p.x - offset.x) \div scale,
                         y |-> (p.y - offset.y) \div scale]>>]_vars

\* a tap in add-person mode has placed a person while the view was zoomed
\* and shifted
C9_Witness ==
  /\ app = "desktop" /\ interactionMode = "add-person"
  /\ Len(calls) = 1 /\ calls[1].cb = "onCanvasClick"
  /\ zoom # R(1) /\ pan.x # R(0) /\ pan.y # R(0)

---------------------------------------------------------------------------
(* Properties of the gesture state of a person *)

\* C21 as stated, for a change of mode: the long-press timer of a press made
\* in navigate mode that runs after the mode was changed away from navigate
\* does not put the node into editing.
C21_ModeChangeCancelsTimer ==
  [][\A t \in timers :
       (/\ last'.ev = "timer" /\ t.mode = "navigate"
        /\ CurrentMode # "navigate" /\ LongPressFires(t))
         => ~isEditing'[t.node]]_vars

ReleaseOn(n) == TouchEndOn(n) \/ TouchEndDetached(n)

\* C22 as stated: the long-press timer of a press runs only while the finger of that
\* press is still down, and for the first time in that press; the up event
\* leaves no timer of the node pending, so a press whose up event came first
\* never enters editing; and the up event of a press whose timer has run
\* invokes no callback.
C22_TimerOrUpNotBoth ==
  [][/\ \A t \in timers :
          last'.ev = "timer" /\ LongPressFires(t)
            => /\ down = t.node /\ touches = 1
               /\ ~gesture.fired /\ gesture.edits = 0
     /\ \A n \in NodeIds :
          (last'.ev = "touchend" /\ down = n /\ ReleaseOn(n))
            => /\ ~Armed(n)'
               /\ gesture.fired => calls' = <<>>
               /\ ~gesture.fired => isEditing'[n] = isEditing[n] /\ ~isEditing[n]]_vars

\* C23 as stated: while the long-press timer of a touch is pending and the
\* mode is that of the press, a move of more than 10px in either axis leaves
\* no timer of the node pending, and puts the node into Dragging only if less
\* than 200 ms have passed since the press.
C23_DragOnlyWithinWindow ==
  [][\A n \in NodeIds, p \in MovePts :
       (/\ last'.ev = "touchmove" /\ down = n /\ Armed(n) /\ Beyond10(p)
        /\ ModeKept /\ TouchMoveOn(n, p))
         => /\ ~Armed(n)'
            /\ (isDragging'[n] /\ ~isDragging[n]) => elapsed[n] < 200]_vars

\* the pointer's screen position at the down event less the person's
\* position then: a press lands GrabOffset from the corner the person is
\* drawn at, which on mobile is its position shifted by the canvas offset
DragOffset ==
  IF app = "desktop" THEN GrabOffset
  ELSE Pt(offset.x + GrabOffset.x, offset.y + GrabOffset.y)

\* round(v / 20) * 20, halves rounded up
Nearest20(v) ==
  CHOOSE m \in {20 * k : k \in -30..30} : m - 10 <= v /\ v < m + 10

MoveOn(n, p) ==
  \/ PersonNode_handleTouchMove(n, p)
  \/ PersonNode_handleMouseMove(n, p)
  \/ MobilePersonNode_handleTouchMove(n, p)

\* C24 as stated: every position update a move of a dragged person emits is,
\* per axis, round((pointer - dragOffset) / 20) * 20, dragOffset being the
\* pointer's screen position at the down event less the person's position
\* then, also where that coordinate is negative.
C24_UpdateFollowsPointer ==
  [][\A n \in NodeIds, p \in DragPts :
       (/\ last'.ev \in {"touchmove", "mousemove"} /\ calls' # <<>>
        /\ MoveOn(n, p) /\ calls'[1].cb = "onPersonUpdate")
         => /\ calls'[1].x = Nearest20(p.x - DragOffset.x)
            /\ calls'[1].y = Nearest20(p.y - DragOffset.y)]_vars

---------------------------------------------------------------------------
(* Properties of a press on the empty canvas *)

\* C25: in add-person mode a press on the empty canvas with a single pointer
\* (the primary mouse button without Alt, canvas clicks not being disabled, or
\* a single touch; on mobile a single touch in add mode) invokes the
\* place-person callback, once, and does not change whether the canvas is
\* Panning: it is not panning after a press that found it not panning.
C25_AddPressPlacesNotPans ==
  [][\A p \in Pts :
       /\ (/\ last'.ev \in {"mousedown", "touchstart"}
           /\ interactionMode = "add-person"
           /\ \/ handleMouseDown(0, FALSE, "canvas", FALSE, p)
              \/ handleTouchStart1("canvas", p))
           => /\ Len(calls') = 1 /\ calls'[1].cb = "onCanvasClick"
              /\ isPanning' = isPanning
       /\ (/\ last'.ev = "touchstart" /\ mode = "add"
           /\ MobileCanvas_handleTouchStart1(p))
           => /\ Len(calls') = 1 /\ calls'[1].cb = "onCanvasTouch"
              /\ mIsPanning' = mIsPanning /\ ~mIsPanning']_vars

\* after an earlier gesture on the canvas, a finger has gone down on the
\* empty canvas in add-person mode: a person was placed and the canvas is not
\* panning
C25_Witness ==
  /\ app = "desktop" /\ interactionMode = "add-person"
  /\ last.ev = "touchstart" /\ touches = 1 /\ ops >= 2
  /\ Len(calls) = 1 /\ calls[1].cb = "onCanvasClick"
  /\ ~isPanning

\* C26 as stated, for the mobile app: when a single touch that went down on
\* the empty canvas in add mode leaves the screen after more than the 200 ms
\* of a tap, that touch has not invoked the place-person callback (whose
\* handler opens the add form).
C26_HeldPressPlacesNothing ==
  [][\A p \in Pts :
       (/\ last'.ev = "touchend" /\ mode = "add" /\ canvasElapsed > 200
        /\ MobileCanvas_handleTouchEnd(0, p))
         => ~showAddForm]_vars

---------------------------------------------------------------------------
(* Properties of a connection drag *)

DesktopDownOn(n) ==
  PersonNode_handleMouseDown(n, GrabPt(n)) \/ PersonNode_handleTouchStart(n, GrabPt(n))

DesktopMoveOn(n, p) ==
  PersonNode_handleMouseMove(n, p) \/ PersonNode_handleTouchMove(n, p)

\* the centre of the person pressed at the screen point s, GrabOffset from
\* its corner: the corner plus half the size of the node
CentreFrom(s) == Pt(s.x - GrabOffset.x + 75, s.y - GrabOffset.y + 50)

---------------------------------------------------------------------------
(* Properties of the end of a gesture on a person *)

MouseUpOn(n) ==
  \E o \in Targets, r \in BOOLEAN : PersonNode_handleMouseUp(n, o, r)

\* C28 as stated: the up event that ends a gesture on a person whose element
\* still handles it leaves the node Idle, that is not dragging, not
\* connecting and with no long-press timer pending; and an up event that
\* finds the node Dragging invokes no callback.
C28_UpLeavesIdle ==
  [][\A n \in NodeIds :
       (/\ last'.ev \in {"touchend", "mouseup"} /\ down = n
        /\ (TouchEndOn(n) \/ MouseUpOn(n)))
         => /\ ~isDragging'[n] /\ ~isConnecting'[n] /\ ~Armed(n)'
            /\ isDragging[n] => calls' = <<>>]_vars

\* C29 as stated: in every reachable state no person is Dragging and
\* ConnectingOut at once, and none is Dragging or ConnectingOut while a
\* long-press timer of it is pending.
C29_OneGestureState ==
  \A n \in NodeIds :
    /\ ~(isDragging[n] /\ isConnecting[n])
    /\ (isDragging[n] \/ isConnecting[n]) => ~Armed(n)

---------------------------------------------------------------------------
(* Properties of the touches on the canvas *)

\* C30 as stated: whenever the number of touches drops to 0, the canvas is
\* Idle afterwards: not panning, not pinching, and with the reference
\* distance of the pinch cleared.
C30_NoTouchIdle ==
  [][(touches > 0 /\ touches' = 0) =>
       IF app = "desktop"
         THEN ~isPanning' /\ lastTouchDistance' = R(0)
         ELSE ~mIsPanning' /\ ~isZooming' /\ mLastTouchDistance' = 0]_vars

---------------------------------------------------------------------------
(* Properties of two fingers on the canvas *)

Panning == IF app = "desktop" THEN isPanning ELSE mIsPanning
Pinching == IF app = "desktop" THEN touches = 2 ELSE isZooming

\* C31 as stated: a second touch that lands while the canvas is Panning ends
\* Panning, and the canvas is never Panning and Pinching at once.
C31_NeverPanningAndPinching ==
  [][/\ (touches = 1 /\ touches' = 2 /\ Panning) => ~Panning'
     /\ ~(Panning' /\ Pinching')]_vars

---------------------------------------------------------------------------
(* Properties of the stored position of a person *)

\* C32: among the events of the gestures on persons (down, move, up, long
\* press, double click, edit, mode and type switches), the stored (x, y) of a
\* person changes only by a move event of that person's own node, handled
\* while the node is Dragging and the pointer is the one held on that person;
\* no other event, and no event of another node, changes it.
C32_OnlyDragMoves ==
  [][\A n \in NodeIds :
       people'[n] # people[n] =>
         /\ last'.ev \in {"touchmove", "mousemove"}
         /\ last'.node = n
         /\ isDragging[n]
         /\ down = n]_vars

\* a drag has moved A, and only A, and the touch move that did it came last
C32_Witness ==
  /\ last.ev = "touchmove" /\ last.node = "A"
  /\ down = "A" /\ isDragging["A"]
  /\ calls # <<>> /\ calls[1].cb = "onPersonUpdate"
  /\ people["A"] # StoredPeople["A"]
  /\ people["B"] = StoredPeople["B"]

---------------------------------------------------------------------------
(* Properties of the view during a gesture on a person *)

View == IF app = "desktop" THEN <<zoom, pan>> ELSE <<scale, offset>>

\* C33 as stated: a down, move, up or long-press event of a person's node,
\* handled while no other finger is on the screen, leaves the zoom and the
\* pan of the canvas as they were.
C33_NodeEventsKeepView ==
  [][(/\ "node" \in DOMAIN last'
      /\ last'.ev \in {"touchstart", "touchmove", "touchend", "mousedown",
                       "mousemove", "mouseup", "timer"}
      /\ touches <= 1 /\ touches' <= 1)
       => View' = View]_vars

---------------------------------------------------------------------------
(* Properties of a press on an open edit form *)

\* a pointer goes down at p on the edit form of a person: the form has no
\* handler of its own, and the event reaches the canvas as one whose target
\* is not the canvas (desktop) and not a person (mobile)
DownOnForm(p) ==
  \/ \E b \in {0, 1}, alt \in BOOLEAN : handleMouseDown(b, alt, "other", FALSE, p)
  \/ handleTouchStart1("other", p)
  \/ MobileCanvas_handleTouchStart1(p)

\* C34 as stated: a down event on a person whose edit form is open is
\* ignored: it starts no drag and no connection, arms no timer and invokes
\* no callback.
C34_DownOnFormIgnored ==
  [][\A n \in NodeIds, p \in Pts :
       (/\ last'.ev \in {"mousedown", "touchstart"}
        /\ isEditing[n]
        /\ DownOnForm(p))
         => /\ isDragging' = isDragging
            /\ isConnecting' = isConnecting
            /\ timers' = timers
            /\ longPressTimer' = longPressTimer
            /\ calls' = <<>>]_vars

---------------------------------------------------------------------------
(* Properties of a pinch resumed after a lift *)

\* C35: on the desktop canvas, when of two fingers one is lifted and a finger
\* lands again, the lift clears the reference distance of the pinch, no
\* one-finger move in between changes the zoom or sets a reference, the
\* landing sets the reference to the distance of the fingers at that moment
\* (2h for fingers h left and right of a centre), and the first two-finger
\* move after it, made at the distance of the landing, leaves zoom and pan
\* unchanged.
C35_RelandResetsReference ==
  [][app = "desktop" =>
       /\ (last'.ev = "touchend" /\ touches > 1 /\ touches' = 1)
            => lastTouchDistance' = R(0)
       /\ (last'.ev = "touchmove" /\ touches = 1)
            => zoom' = zoom /\ lastTouchDistance' = R(0)
       /\ \A c \in Pts, h \in Spreads :
            (/\ last'.ev = "touchstart" /\ last.ev = "touchend" /\ touches = 1
             /\ handleTouchStart2(1, c, h))
              => lastTouchDistance' = R(2 * h)
       /\ (/\ last'.ev = "touchmove" /\ touches = 2 /\ Relanded
           /\ lastTouchDistance' = lastTouchDistance)
            => zoom' = zoom /\ pan' = pan]_vars

\* of two fingers one was lifted, a finger landed again 80 from the one
\* left, and the two have moved, still 80 apart: the zoom is as it was
C35_Witness ==
  /\ app = "desktop" /\ touches = 2 /\ ops = 3
  /\ last = [ev |-> "touchmove", relanded |-> TRUE]
  /\ lastTouchDistance = R(80)
  /\ zoom = R(1)

---------------------------------------------------------------------------
(* Properties of the two conversions from screen to world *)

CanvasTapAt(p) ==
  handleMouseDown(0, FALSE, "canvas", FALSE, p) \/ handleTouchStart1("canvas", p)

ConnectionEventAt(n, p) ==
  \/ PersonNode_handleMouseDown(n, p)
  \/ PersonNode_handleTouchStart(n, p)
  \/ PersonNode_handleMouseMove(n, p)
  \/ PersonNode_handleTouchMove(n, p)

\* C36: at every screen point and in every view the wheel can produce, the
\* world point the canvas reports for an add-person tap is the one a node
\* computes for that screen point, and the world point a node reports for a
\* connection drag is the one the canvas computes for that screen point.
C36_SameWorldPoint ==
  [][\A p \in CoordPts \cup {GrabPt(n) : n \in NodeIds} :
       /\ (/\ last'.ev \in {"mousedown", "touchstart"}
           /\ interactionMode = "add-person"
           /\ CanvasTapAt(p))
            => /\ Len(calls') = 1 /\ calls'[1].cb = "onCanvasClick"
               /\ Pt(calls'[1].x, calls'[1].y) = screenToCanvasCoords(p)
       /\ \A n \in NodeIds :
            (/\ calls' # <<>>
             /\ ConnectionEventAt(n, p)
             /\ calls'[1].cb = "onConnectionDrag")
              => calls'[1].cur = ToWorld(p, pan, zoom)]_vars

\* in a view zoomed and shifted by the wheel, a tap has placed a person at
\* the world point of (220, 140)
C36_Witness ==
  /\ zoom # R(1) /\ pan.x # R(0)
  /\ interactionMode = "add-person"
  /\ last.ev \in {"mousedown", "touchstart"}
  /\ Len(calls) = 1 /\ calls[1].cb = "onCanvasClick"
  /\ Pt(calls[1].x, calls[1].y) = screenToCanvasCoords(Pt(220, 140))
  /\ Pt(calls[1].x, calls[1].y) # RPt(Pt(220, 140))

---------------------------------------------------------------------------
(* Properties of the stored relationships *)

PersonIds == DOMAIN people

\* C37: in the mobile app every stored relationship's from and to are ids of
\* persons currently in the tree, after any sequence of adding and deleting
\* persons, touches, mode switches and Clear All.
C37_RelationshipsJoinPersons ==
  app = "mobile" =>
    \A i \in DOMAIN relationships :
      relationships[i].from \in PersonIds /\ relationships[i].to \in PersonIds

---------------------------------------------------------------------------
(* Properties of the end of a connection drag *)

\* how often onConnectionDragEnd occurs among the callbacks cs
DragEnds(cs) ==
  Cardinality({i \in 1..Len(cs) : cs[i].cb = "onConnectionDragEnd"})

---------------------------------------------------------------------------
(* Properties of the deletion of a relationship *)

\* the list rs without its entry i
WithoutEntry(rs, i) ==
  [k \in 1..(Len(rs) - 1) |-> IF k < i THEN rs[k] ELSE rs[k + 1]]

\* C39: a confirmed delete of a relationship removes the one relationship
\* that was tapped and leaves every other relationship and every person as
\* they were.
C39_DeleteRemovesOne ==
  [][\A i \in DOMAIN relationships :
       (last'.ev = "deleteRelationship" /\ deleteRelationship(i, TRUE))
         => /\ relationships' = WithoutEntry(relationships, i)
            /\ people' = people]_vars

---------------------------------------------------------------------------
(* Properties of the pending long-press timers *)

\* the timeouts pending for person n
Pending(n) == {t \in timers : t.node = n}

\* C40: at most one long-press timer is pending per person at any time: a
\* down event that arms a timer leaves that timer as the only one pending
\* for the person.  So a press opens the editor at most once: the timer that
\* runs leaves none pending for its person.
C40_OneTimerPerNode ==
  [][\A n \in NodeIds :
       /\ Cardinality(Pending(n)') <= 1
       /\ (last'.ev = "touchstart" /\ "node" \in DOMAIN last' /\ last'.node = n
            /\ Pending(n)' # {})
             => Pending(n)' = {t \in timers' : t.id = longPressTimer'[n]}
       /\ (last'.ev = "timer" /\ last'.node = n) => Pending(n)' = {}]_vars

\* a further finger has gone down on A while the timer of the first finger
\* on A was pending: one timer is pending for A, the one armed last
C40_Witness ==
  /\ last.ev = "touchstart" /\ "rearmed" \in DOMAIN last /\ last.rearmed
  /\ last.node = "A" /\ down = "A" /\ touches = 2
  /\ Cardinality(Pending("A")) = 1
  /\ \A t \in Pending("A") : t.id = longPressTimer["A"]

====
